---------------------------- MODULE Spec2Model ----------------------------
(* Verification model of the Commercial-Construction-Dashboard scripts:     *)
(*   - the predictive dashboard   (src/unnamed/part_000)                    *)
(*   - the prescriptive dashboard (src/js/prescriptive.js)                  *)
(*   - the descriptive dashboard  (src/js/descriptive.js)                   *)
(*   - the diagnostic dashboard   (src/unnamed/part_001)                    *)
(*                                                                          *)
(* JavaScript numbers are modelled as exact rationals extended with NaN and *)
(* +/-Infinity (IEEE rounding error is not modelled).  Date.getTime() is    *)
(* counted in whole days, so the division by 1000*60*60*24 of the source is *)
(* folded into the unit.  Math.log10 is exact on the powers of ten, which   *)
(* are the only arguments the sampled inputs produce.                       *)
EXTENDS Integers, Sequences, FiniteSets, TLC

VARIABLES
    phase,          \* predictive page: "loading" until Promise.all resolves, then "ready"
    projects,       \* module-held array of project rows
    cos,            \* module-held array of change-order rows
    horizonValue,   \* el.horizon.value as parseInt reads it
    view,           \* what the last render() handed to the KPIs and charts
    call,           \* function-level check: the function applied and its arguments
    ret,            \* function-level check: the value returned
    requests,       \* page load: the d3.csv requests issued so far, in the order issued
    handlers,       \* page load: the DOMContentLoaded handlers of the page's script
    csv,            \* page load: the rows of the two files the server holds
    dom             \* page load: the page's control, its options and its canvases

vars == <<phase, projects, cos, horizonValue, view, call, ret, requests, handlers,
          csv, dom>>

--------------------------------------------------------------------------
(* JavaScript numbers *)

Abs(x) == IF x < 0 THEN -x ELSE x

RECURSIVE GCD(_, _)
GCD(a, b) == IF b = 0 THEN a ELSE GCD(b, a % b)

NaN == [k |-> "nan", n |-> 0, d |-> 1]
PosInf == [k |-> "inf", n |-> 1, d |-> 1]
NegInf == [k |-> "inf", n |-> -1, d |-> 1]

\* the finite number n/d (d # 0), in lowest terms with a positive denominator
Fin(n, d) ==
    LET s == IF d < 0 THEN -1 ELSE 1
        g == GCD(Abs(n), Abs(d))
    IN [k |-> "fin", n |-> (s * n) \div g, d |-> (s * d) \div g]

Num(n) == [k |-> "fin", n |-> n, d |-> 1]

isNaN(x) == x.k = "nan"
isFinite(x) == x.k = "fin"
Sign(x) == IF x.n > 0 THEN 1 ELSE IF x.n < 0 THEN -1 ELSE 0
Inf(s) == IF s < 0 THEN NegInf ELSE PosInf

Neg(x) == [x EXCEPT !.n = -x.n]

Add(x, y) ==
    CASE isNaN(x) \/ isNaN(y) -> NaN
      [] x.k = "inf" /\ y.k = "inf" -> IF x.n = y.n THEN x ELSE NaN
      [] x.k = "inf" -> x
      [] y.k = "inf" -> y
      [] OTHER -> Fin(x.n * y.d + y.n * x.d, x.d * y.d)

Sub(x, y) == Add(x, Neg(y))

Mul(x, y) ==
    CASE isNaN(x) \/ isNaN(y) -> NaN
      [] x.k = "inf" \/ y.k = "inf" ->
            IF Sign(x) * Sign(y) = 0 THEN NaN ELSE Inf(Sign(x) * Sign(y))
      [] OTHER -> Fin(x.n * y.n, x.d * y.d)

Div(x, y) ==
    CASE isNaN(x) \/ isNaN(y) -> NaN
      [] x.k = "inf" /\ y.k = "inf" -> NaN
      [] x.k = "inf" -> Inf(IF Sign(y) < 0 THEN -Sign(x) ELSE Sign(x))
      [] y.k = "inf" -> Num(0)
      [] y.n = 0 -> IF x.n = 0 THEN NaN ELSE Inf(Sign(x))
      [] OTHER -> Fin(x.n * y.d, x.d * y.n)

\* x < y, false when either side is NaN
Lt(x, y) ==
    CASE isNaN(x) \/ isNaN(y) -> FALSE
      [] x.k = "inf" /\ y.k = "inf" -> x.n < y.n
      [] x.k = "inf" -> x.n < 0
      [] y.k = "inf" -> y.n > 0
      [] OTHER -> x.n * y.d < y.n * x.d

Gt(x, y) == Lt(y, x)
Le(x, y) == ~isNaN(x) /\ ~isNaN(y) /\ ~Lt(y, x)
Ge(x, y) == Le(y, x)

MathMax(x, y) == IF isNaN(x) \/ isNaN(y) THEN NaN ELSE IF Lt(x, y) THEN y ELSE x
MathMin(x, y) == IF isNaN(x) \/ isNaN(y) THEN NaN ELSE IF Lt(y, x) THEN y ELSE x

\* Math.round: the nearest integer, halves towards +Infinity
MathRound(x) ==
    IF x.k = "fin" THEN Num((2 * x.n + x.d) \div (2 * x.d)) ELSE x

\* v || w on numbers: 0 and NaN are falsy
OrElse(v, w) == IF isNaN(v) \/ (v.k = "fin" /\ v.n = 0) THEN w ELSE v

\* Math.log10, exact on the powers of ten up to 10^9
RECURSIVE Log10Int(_)
Log10Int(n) == IF n = 1 THEN 0 ELSE 1 + Log10Int(n \div 10)

RECURSIVE IsPow10(_)
IsPow10(n) == n = 1 \/ (n > 1 /\ n % 10 = 0 /\ IsPow10(n \div 10))

MathLog10(x) ==
    CASE isNaN(x) -> NaN
      [] x.k = "inf" -> IF x.n > 0 THEN PosInf ELSE NaN
      [] x.n < 0 -> NaN
      [] x.n = 0 -> NegInf
      [] x.d = 1 /\ IsPow10(x.n) -> Num(Log10Int(x.n))
      [] x.n = 1 /\ IsPow10(x.d) -> Num(-Log10Int(x.d))

\* arr.reduce((a,b)=>a+b, 0)
RECURSIVE SumSeq(_)
SumSeq(s) == IF s = <<>> THEN Num(0) ELSE Add(SumSeq(SubSeq(s, 1, Len(s) - 1)), s[Len(s)])

\* Math.max(...arr): -Infinity for the empty array, NaN when any element is NaN
RECURSIVE MaxSeq(_)
MaxSeq(s) == IF s = <<>> THEN NegInf ELSE MathMax(MaxSeq(SubSeq(s, 1, Len(s) - 1)), s[Len(s)])

\* arr.filter(pred) for a sequence and a set of kept indices
RECURSIVE FilterIdx(_, _, _)
FilterIdx(s, keep, i) ==
    IF i > Len(s) THEN <<>>
    ELSE (IF i \in keep THEN <<s[i]>> ELSE <<>>) \o FilterIdx(s, keep, i + 1)

--------------------------------------------------------------------------
(* Dates: a CSV date field is empty, unparsable, or an ISO calendar date *)

NoDate == [k |-> "empty", y |-> 0, m |-> 0, d |-> 0]
BadDate == [k |-> "bad", y |-> 0, m |-> 0, d |-> 0]
Ymd(y, m, d) == [k |-> "ymd", y |-> y, m |-> m, d |-> d]

IsLeap(y) == (y % 4 = 0 /\ y % 100 # 0) \/ y % 400 = 0
LeapsBefore(y) == (y - 1) \div 4 - (y - 1) \div 100 + (y - 1) \div 400
DaysBeforeMonth(y, m) ==
    <<0, 31, 59, 90, 120, 151, 181, 212, 243, 273, 304, 334>>[m]
        + (IF m > 2 /\ IsLeap(y) THEN 1 ELSE 0)
\* whole days from 1970-01-01 to the date
DaysFromEpoch(y, m, d) ==
    365 * (y - 1970) + LeapsBefore(y) - LeapsBefore(1970)
        + DaysBeforeMonth(y, m) + d - 1

\* new Date(s): a Date whose time value is NaN when s does not parse
NewDate(s) ==
    [k |-> "date",
     t |-> IF s.k = "ymd" THEN Num(DaysFromEpoch(s.y, s.m, s.d)) ELSE NaN,
     y |-> IF s.k = "ymd" THEN Num(s.y) ELSE NaN,
     mo |-> IF s.k = "ymd" THEN Num(s.m - 1) ELSE NaN]

Null == [k |-> "null", t |-> NaN, y |-> NaN, mo |-> NaN]
\* (s) => (s ? new Date(s) : null)
parseDate(s) == IF s.k = "empty" THEN Null ELSE NewDate(s)
Truthy(dt) == dt.k # "null"
\* isNaN(date): the time value is NaN
DateIsNaN(dt) == isNaN(dt.t)
\* (ae - pe)/(1000*60*60*24); null converts to 0 in a subtraction
DayDiff(ae, pe) ==
    Sub(IF Truthy(ae) THEN ae.t ELSE Num(0), IF Truthy(pe) THEN pe.t ELSE Num(0))
getFullYear(dt) == dt.y
\* d.getMonth(): 0 for January
getMonth(dt) == dt.mo

--------------------------------------------------------------------------
(* CSV fields and the rows the load step builds *)

\* a numeric CSV field as text: empty, not a number, or a numeric literal
EmptyField == [k |-> "empty", v |-> NaN]
BadField == [k |-> "bad", v |-> NaN]
Lit(v) == [k |-> "lit", v |-> v]

\* unary plus on a CSV field: +"" is 0, +"abc" is NaN
ToNumber(f) == IF f.k = "empty" THEN Num(0) ELSE IF f.k = "bad" THEN NaN ELSE f.v

\* pr.map(d => ({...})) of the load step
ProjectRow(d) ==
    [project_id |-> d.project_id,
     start_date |-> d.start_date,
     planned_end |-> d.planned_end,
     actual_end |-> d.actual_end,
     planned_budget |-> ToNumber(d.planned_budget),
     actual_cost |-> ToNumber(d.actual_cost)]

\* co.map(d => ({...})) of the load step
CoRow(d) ==
    [project_id |-> d.project_id, co_cost |-> ToNumber(d.co_cost), date |-> d.date]

--------------------------------------------------------------------------
(* Objects keyed by year or by project id *)

EmptyObj == <<>>
\* (obj[key] || 0)
GetOr0(obj, key) == IF key \in DOMAIN obj THEN OrElse(obj[key], Num(0)) ELSE Num(0)
\* obj[key] = v
Put(obj, key, v) == [x \in DOMAIN obj \cup {key} |-> IF x = key THEN v ELSE obj[x]]

RECURSIVE Ascending(_)
Ascending(S) ==
    IF S = {} THEN <<>>
    ELSE LET lo == CHOOSE x \in S : \A y \in S : x <= y
         IN <<Num(lo)>> \o Ascending(S \ {lo})

\* Object.keys(obj).map(Number).sort((a,b)=>a-b): the year keys ascending; the key
\* "NaN" of rows with an unparsable start_date is listed after the integer keys
\* and every comparison with it yields NaN, so it stays last
SortedKeys(obj) ==
    Ascending({key.n : key \in {x \in DOMAIN obj : isFinite(x)}})
        \o (IF NaN \in DOMAIN obj THEN <<NaN>> ELSE <<>>)

\* const mean = (arr) => arr.length ? arr.reduce((a,b)=>a+b,0)/arr.length : 0
mean(arr) == IF Len(arr) # 0 THEN Div(SumSeq(arr), Num(Len(arr))) ELSE Num(0)

--------------------------------------------------------------------------
(* Predictive dashboard: derived series *)

\* the rows.forEach of a by-year rollup: running sums and counts after i rows;
\* entries[i] holds, for row i, whether the callback returns early, the year key
\* and the value added
RECURSIVE SumsCnts(_, _)
SumsCnts(entries, i) ==
    IF i = 0 THEN [sums |-> EmptyObj, cnts |-> EmptyObj]
    ELSE LET acc == SumsCnts(entries, i - 1)
             e == entries[i]
         IN IF e.skip THEN acc
            ELSE [sums |-> Put(acc.sums, e.y, Add(GetOr0(acc.sums, e.y), e.val)),
                  cnts |-> Put(acc.cnts, e.y, Add(GetOr0(acc.cnts, e.y), Num(1)))]

\* Object.keys(sums).forEach(y => out[y] = sums[y]/cnts[y])
MeansOf(acc) == [y \in DOMAIN acc.sums |-> Div(acc.sums[y], acc.cnts[y])]

avgActualCostByYear(rows) ==
    MeansOf(SumsCnts([i \in 1..Len(rows) |->
                        [skip |-> ~isFinite(rows[i].actual_cost),
                         y |-> getFullYear(NewDate(rows[i].start_date)),
                         val |-> rows[i].actual_cost]], Len(rows)))

avgScheduleVarianceByYear(rows) ==
    MeansOf(SumsCnts([i \in 1..Len(rows) |->
                        LET pe == parseDate(rows[i].planned_end)
                            ae == parseDate(rows[i].actual_end)
                        IN [skip |-> ~Truthy(pe) \/ ~Truthy(ae) \/ DateIsNaN(pe) \/ DateIsNaN(ae),
                            y |-> getFullYear(NewDate(rows[i].start_date)),
                            val |-> DayDiff(ae, pe)]], Len(rows)))

\* the denominator with the factor n dropped
SlopeDenominatorNoCount(n, sxx, sx) == MathMax(Num(1), Sub(sxx, Mul(sx, sx)))

\* the denominator of the slope: Math.max(1, n*sxx - sx*sx)
SlopeDenominator(n, sxx, sx) == MathMax(Num(1), Sub(Mul(n, sxx), Mul(sx, sx)))

\* a degenerate result that drops the single observed value
linRegDegenerateZero(xs, ys) == [a |-> Num(0), b |-> Num(0), xs |-> xs, ys |-> ys]

\* the result of linReg on a series of fewer than 2 points
linRegDegenerate(xs, ys) ==
    [a |-> IF Len(ys) = 0 THEN Num(0) ELSE OrElse(ys[1], Num(0)),
     b |-> Num(0), xs |-> xs, ys |-> ys]

\* simple linear regression y = a + b*x over year numbers
linReg(seriesObj) ==
    LET xs == SortedKeys(seriesObj)
        ys == [i \in 1..Len(xs) |-> seriesObj[xs[i]]]
        n == Num(Len(xs))
        sx == SumSeq(xs)
        sy == SumSeq(ys)
        sxx == SumSeq([i \in 1..Len(xs) |-> Mul(xs[i], xs[i])])
        sxy == SumSeq([i \in 1..Len(xs) |-> Mul(xs[i], ys[i])])
        b == Div(Sub(Mul(n, sxy), Mul(sx, sy)), SlopeDenominator(n, sxx, sx))
        a == Div(Sub(sy, Mul(b, sx)), n)
    IN IF Len(xs) < 2 THEN linRegDegenerate(xs, ys)
       ELSE [a |-> a, b |-> b, xs |-> xs, ys |-> ys]

\* the value pushed for year y: a + b*y
forecastValue(a, b, y) == Add(a, Mul(b, y))

\* the loop started at i=0 and stopped before horizon
forecastNextYearsFromLast(a, b, lastYear, horizon) ==
    LET cnt == IF horizon < 1 THEN 0 ELSE horizon
    IN [labels |-> [i \in 1..cnt |-> Add(lastYear, Num(i - 1))],
        vals |-> [i \in 1..cnt |-> forecastValue(a, b, Add(lastYear, Num(i - 1)))]]

\* for (let i=1; i<=horizon; i++): no iteration when horizon < 1
forecastNextYears(a, b, lastYear, horizon) ==
    LET cnt == IF horizon < 1 THEN 0 ELSE horizon
    IN [labels |-> [i \in 1..cnt |-> Add(lastYear, Num(i))],
        vals |-> [i \in 1..cnt |-> forecastValue(a, b, Add(lastYear, Num(i)))]]

\* the filter without its r.planned_budget>0 test
EligibleAnyBudget(rows) ==
    FilterIdx(rows,
              {i \in 1..Len(rows) : /\ isFinite(rows[i].planned_budget)
                                    /\ isFinite(rows[i].actual_cost)}, 1)

\* rows.filter(r => isFinite(r.planned_budget) && r.planned_budget>0 && isFinite(r.actual_cost))
Eligible(rows) ==
    FilterIdx(rows,
              {i \in 1..Len(rows) : /\ isFinite(rows[i].planned_budget)
                                    /\ Gt(rows[i].planned_budget, Num(0))
                                    /\ isFinite(rows[i].actual_cost)}, 1)

\* the rows.map(...) of portfolioOverrunProbability: the slip in days, or NaN
SlipOrNaN(r) ==
    LET pe == parseDate(r.planned_end)
        ae == parseDate(r.actual_end)
    IN IF Truthy(pe) /\ Truthy(ae) THEN DayDiff(ae, pe) ELSE NaN

\* base + (schedVar>0 ? 0.05 : -0.02)
Bump(base, schedVar) ==
    Add(base, IF Gt(schedVar, Num(0)) THEN Fin(5, 100) ELSE Fin(-2, 100))

\* a missing lower bound
clampUnitNoFloor(v) == MathMin(Num(1), v)

\* Math.min(1, Math.max(0, v))
clampUnit(v) == MathMin(Num(1), MathMax(Num(0), v))

portfolioOverrunProbability(rows) ==
    LET elig == Eligible(rows)
        over == Len(FilterIdx(elig,
                    {i \in 1..Len(elig) : Gt(elig[i].actual_cost, elig[i].planned_budget)}, 1))
        base == IF Len(elig) # 0 THEN Div(Num(over), Num(Len(elig))) ELSE Num(0)
        slips == [i \in 1..Len(rows) |-> SlipOrNaN(rows[i])]
        schedVar == mean(FilterIdx(slips, {i \in 1..Len(slips) : isFinite(slips[i])}, 1))
        adj == clampUnit(Bump(base, schedVar))
    IN [base |-> base, adj |-> adj]

\* const slipDays = (pe&&ae)? Math.max(0,(ae-pe)/(1000*60*60*24)) : 0
ruleSlipDays(row) ==
    LET pe == parseDate(row.planned_end)
        ae == parseDate(row.actual_end)
    IN IF Truthy(pe) /\ Truthy(ae) THEN MathMax(Num(0), DayDiff(ae, pe)) ELSE Num(0)

\* return Math.min(100, Math.round(score))
ruleClamp(score) == MathMin(Num(100), MathRound(score))

ruleRiskScore(row, coMap) ==
    LET size == MathLog10(MathMax(Num(1), row.planned_budget))
        slipDays == ruleSlipDays(row)
        coTotal == GetOr0(coMap, row.project_id)
        score == Add(Add(Mul(Num(20), size), Mul(Fin(5, 100), slipDays)),
                     Mul(Fin(5, 1000000), coTotal))
    IN ruleClamp(score)

\* const k = r.project_id || "__missing__"
CoKey(r) == IF r.project_id = "" THEN "__missing__" ELSE r.project_id

RECURSIVE changeOrderTotalsUpTo(_, _)
changeOrderTotalsUpTo(rows, i) ==
    IF i = 0 THEN EmptyObj
    ELSE LET m == changeOrderTotalsUpTo(rows, i - 1)
             r == rows[i]
             c == IF isFinite(r.co_cost) THEN r.co_cost ELSE Num(0)
         IN Put(m, CoKey(r), Add(GetOr0(m, CoKey(r)), c))

changeOrderTotalsByProject(rows) == changeOrderTotalsUpTo(rows, Len(rows))

--------------------------------------------------------------------------
(* Predictive dashboard: render() *)

\* parseInt(el.horizon.value, 10) || 3
HorizonOf(value) == OrElse(value, Num(3)).n

\* money(n): "$" and the rounded amount, or "N/A" when n is not finite
money(n) == IF isFinite(n) THEN [text |-> "$", amount |-> MathRound(n)]
            ELSE [text |-> "N/A", amount |-> NaN]

\* projects.forEach(r => counts[y] = (counts[y]||0)+1)
RECURSIVE YearCountsUpTo(_, _)
YearCountsUpTo(rows, i) ==
    IF i = 0 THEN EmptyObj
    ELSE LET c == YearCountsUpTo(rows, i - 1)
             y == getFullYear(NewDate(rows[i].start_date))
         IN Put(c, y, Add(GetOr0(c, y), Num(1)))

\* Object.values(obj) in key order
ValuesOf(obj) == LET ks == SortedKeys(obj) IN [i \in 1..Len(ks) |-> obj[ks[i]]]

\* the pipeline loop: for (let i=1;i<=3;i++)
PipelineYears == 3
pipelineForecast(costReg, lastYear, avgCount) ==
    [years |-> [i \in 1..PipelineYears |-> Add(lastYear, Num(i))],
     vals |-> [i \in 1..PipelineYears |->
                 MathMax(Num(0), Mul(avgCount,
                     forecastValue(costReg.a, costReg.b, Add(lastYear, Num(i)))))]]

\* Array(n).fill(null): null is drawn as a gap, here NaN-free marker rows
NullFill(n) == [i \in 1..n |-> Null]

render(ps, cs, horizonSel) ==
    LET horizon == HorizonOf(horizonSel)
        avgCostByYear == avgActualCostByYear(ps)
        costReg == linReg(avgCostByYear)
        costForecast == forecastNextYears(costReg.a, costReg.b, MaxSeq(costReg.xs), horizon)
        schedByYear == avgScheduleVarianceByYear(ps)
        schedReg == linReg(schedByYear)
        schedForecast == forecastNextYears(schedReg.a, schedReg.b,
                                           MaxSeq(SortedKeys(schedByYear)), horizon)
        prob == portfolioOverrunProbability(ps)
        coTotals == changeOrderTotalsByProject(cs)
        scores == [i \in 1..Len(ps) |-> ruleRiskScore(ps[i], coTotals)]
        atRiskCount == Cardinality({i \in 1..Len(ps) : Ge(scores[i], Num(70))})
        lastYear == MaxSeq(costReg.xs)
        avgCount == mean(ValuesOf(YearCountsUpTo(ps, Len(ps))))
        pipe == pipelineForecast(costReg, lastYear, avgCount)
    IN [rendered |-> TRUE,
        horizon |-> horizon,
        avgCostByYear |-> avgCostByYear,
        schedByYear |-> schedByYear,
        costReg |-> costReg,
        costForecast |-> costForecast,
        schedForecast |-> schedForecast,
        base |-> prob.base,
        adj |-> prob.adj,
        scores |-> scores,
        kNextCost |-> money(forecastValue(costReg.a, costReg.b, Add(lastYear, Num(1)))),
        kOverrunProb |-> MathRound(Mul(prob.adj, Num(100))),
        kAtRisk |-> atRiskCount,
        avgCostLabels |-> costReg.xs \o costForecast.labels,
        avgCostForecastData |-> NullFill(Len(costReg.xs)) \o costForecast.vals,
        schedVarLabels |-> SortedKeys(schedByYear) \o schedForecast.labels,
        schedVarForecastData |-> NullFill(Cardinality(DOMAIN schedByYear)) \o schedForecast.vals,
        pipeYears |-> pipe.years,
        pipeVals |-> pipe.vals]

NoView == [rendered |-> FALSE]

--------------------------------------------------------------------------
(* Inputs of the predictive page *)

MaxProjects == 2
MaxCos == 1

\* projects.csv rows: a late finish, an in-flight project, an early finish with a
\* malformed budget, an unparsable start date with an empty cost, an unparsable
\* planned end
CsvProjects ==
    {[project_id |-> "P1", start_date |-> Ymd(2021, 3, 1),
      planned_end |-> Ymd(2023, 1, 1), actual_end |-> Ymd(2023, 2, 15),
      planned_budget |-> Lit(Num(1000)), actual_cost |-> Lit(Num(1200))],
     [project_id |-> "P2", start_date |-> Ymd(2022, 6, 15),
      planned_end |-> Ymd(2023, 1, 1), actual_end |-> NoDate,
      planned_budget |-> Lit(Num(100)), actual_cost |-> Lit(Num(80))],
     [project_id |-> "P3", start_date |-> Ymd(2022, 6, 15),
      planned_end |-> Ymd(2024, 3, 1), actual_end |-> Ymd(2023, 11, 22),
      planned_budget |-> BadField, actual_cost |-> Lit(Num(500))],
     [project_id |-> "P4", start_date |-> BadDate,
      planned_end |-> Ymd(2023, 1, 1), actual_end |-> Ymd(2023, 2, 15),
      planned_budget |-> Lit(Num(1000000)), actual_cost |-> EmptyField],
     [project_id |-> "P5", start_date |-> Ymd(2023, 1, 9),
      planned_end |-> BadDate, actual_end |-> Ymd(2023, 2, 15),
      planned_budget |-> Lit(Num(10)), actual_cost |-> BadField]}

CsvCos ==
    {[project_id |-> "P1", co_cost |-> c, date |-> Ymd(2022, 1, 10)] :
        c \in {Lit(Num(400000)), BadField}}

SeqsUpTo(S, n) == UNION {[1..k -> S] : k \in 0..n}

HorizonValues == {NaN, Num(1), Num(3), Num(5)}

--------------------------------------------------------------------------
(* The predictive page *)

Idle == [fn |-> "none"]

Init ==
    /\ phase = "loading"
    /\ projects = <<>>
    /\ cos = <<>>
    /\ horizonValue \in HorizonValues
    /\ view = NoView
    /\ call = Idle
    /\ ret = Idle
    /\ requests = <<>>
    /\ handlers = <<>>
    /\ csv = <<>>
    /\ dom = <<>>

\* Promise.all(...).then(([pr, co]) => {...}): assign the arrays, render, listen
LoadResolved(pr, co) ==
    /\ phase = "loading"
    /\ projects' = [i \in 1..Len(pr) |-> ProjectRow(pr[i])]
    /\ cos' = [i \in 1..Len(co) |-> CoRow(co[i])]
    /\ view' = render(projects', cos', horizonValue)
    /\ phase' = "ready"
    /\ UNCHANGED <<horizonValue, call, ret, requests, handlers, csv, dom>>

\* either request rejects: the then-callback never runs
LoadFailed ==
    /\ phase = "loading"
    /\ phase' = "failed"
    /\ UNCHANGED <<projects, cos, horizonValue, view, call, ret, requests, handlers, csv, dom>>

\* the "change" listener of the horizon selector: render
HorizonChange(v) ==
    /\ phase = "ready"
    /\ horizonValue' = v
    /\ view' = render(projects, cos, v)
    /\ UNCHANGED <<phase, projects, cos, call, ret, requests, handlers, csv, dom>>

Next ==
    \/ \E pr \in SeqsUpTo(CsvProjects, MaxProjects), co \in SeqsUpTo(CsvCos, MaxCos) :
          LoadResolved(pr, co)
    \/ LoadFailed
    \/ \E v \in HorizonValues : HorizonChange(v)

Spec == Init /\ [][Next]_vars

--------------------------------------------------------------------------
(* Prescriptive dashboard: the spread risk score *)

\* const clamp = (v, lo, hi) => Math.max(lo, Math.min(hi, v))
clamp(v, lo, hi) == MathMax(lo, MathMin(hi, v))

scheduleSlipDays(p) ==
    LET pe == parseDate(p.planned_end)
        ae == parseDate(p.actual_end)
    IN IF ~Truthy(pe) \/ ~Truthy(ae) \/ DateIsNaN(pe) \/ DateIsNaN(ae) THEN Num(0)
       ELSE DayDiff(ae, pe)

costOverrun(p) ==
    IF ~isFinite(p.planned_budget) \/ ~isFinite(p.actual_cost) THEN Num(0)
    ELSE Sub(p.actual_cost, p.planned_budget)

\* the raw composite of one project
rawComposite(p, coMap) ==
    LET size == MathLog10(MathMax(Num(1), p.planned_budget))
        slip == MathMax(Num(0), scheduleSlipDays(p))
        over == MathMax(Num(0), costOverrun(p))
        co == MathMax(Num(0), GetOr0(coMap, p.project_id))
        coTerm == MathLog10(Add(Num(1), Div(co, MathMax(Num(1), p.planned_budget))))
        overTerm == MathLog10(Add(Num(1), Div(over, MathMax(Num(1), p.planned_budget))))
        slipTerm == Div(slip, Num(60))
        sizeTerm == Sub(size, Fin(45, 10))
    IN Add(Add(Add(Mul(Num(18), sizeTerm), Mul(Num(15), slipTerm)),
               Mul(Num(22), coTerm)), Mul(Num(18), overTerm))

\* d3.min / d3.max skip NaN; undefined (here NaN) when no value is left
RECURSIVE d3min(_)
d3min(s) ==
    IF s = <<>> THEN NaN
    ELSE LET rest == d3min(SubSeq(s, 1, Len(s) - 1))
             v == s[Len(s)]
         IN IF isNaN(v) THEN rest ELSE IF isNaN(rest) \/ Lt(v, rest) THEN v ELSE rest

RECURSIVE d3max(_)
d3max(s) ==
    IF s = <<>> THEN NaN
    ELSE LET rest == d3max(SubSeq(s, 1, Len(s) - 1))
             v == s[Len(s)]
         IN IF isNaN(v) THEN rest ELSE IF isNaN(rest) \/ Gt(v, rest) THEN v ELSE rest

\* clamp(((r.raw - mn)/span) * 100 + randJitter(2), 0, 100)
spreadScore(raw, mn, span, jitter) ==
    clamp(Add(Mul(Div(Sub(raw, mn), span), Num(100)), jitter), Num(0), Num(100))

\* raws.reduce((acc, r) => { acc[r.id] = ...; return acc; }, {})
RECURSIVE riskByIdUpTo(_, _, _, _, _, _)
riskByIdUpTo(ps, raws, mn, span, jitters, i) ==
    IF i = 0 THEN EmptyObj
    ELSE Put(riskByIdUpTo(ps, raws, mn, span, jitters, i - 1),
             ps[i].project_id, spreadScore(raws[i], mn, span, jitters[i]))

\* jitters[i] is the value randJitter(2) returns for the i-th project
computeRiskScores(ps, coMap, jitters) ==
    LET raws == [i \in 1..Len(ps) |-> rawComposite(ps[i], coMap)]
        mn == d3min(raws)
        mx == d3max(raws)
        span == OrElse(Sub(mx, mn), Num(1))
    IN riskByIdUpTo(ps, raws, mn, span, jitters, Len(ps))

\* risk: Math.round(riskById[p.project_id] ?? 0)
recRisk(p, riskById) ==
    MathRound(IF p.project_id \in DOMAIN riskById THEN riskById[p.project_id] ELSE Num(0))

--------------------------------------------------------------------------
(* Function-level checks of the predictive dashboard: the inputs *)

MaxRows == 2
MaxPoints == 3
MaxHorizon == 3

\* planned_end / actual_end: 45 days late, 100 days early, in flight, unparsable
\* planned end, no dates at all
EndPairs ==
    {[planned_end |-> Ymd(2023, 1, 1), actual_end |-> Ymd(2023, 2, 15)],
     [planned_end |-> Ymd(2024, 3, 1), actual_end |-> Ymd(2023, 11, 22)],
     [planned_end |-> Ymd(2023, 1, 1), actual_end |-> NoDate],
     [planned_end |-> BadDate, actual_end |-> Ymd(2023, 2, 15)],
     [planned_end |-> NoDate, actual_end |-> NoDate]}

RuleBudgets == {NaN, PosInf, Num(0), Num(1), Num(10), Num(1000), Num(1000000)}

RuleRows ==
    {[project_id |-> "P1", start_date |-> Ymd(2022, 6, 15),
      planned_end |-> e.planned_end, actual_end |-> e.actual_end,
      planned_budget |-> b, actual_cost |-> Num(1200000)] : e \in EndPairs, b \in RuleBudgets}

\* change-order rows of the scored project and of another one
RuleCos ==
    {<<>>,
     <<[project_id |-> "P1", co_cost |-> Num(400000), date |-> Ymd(2022, 1, 10)]>>,
     <<[project_id |-> "P1", co_cost |-> Num(400000), date |-> Ymd(2022, 1, 10)],
       [project_id |-> "P1", co_cost |-> Num(-2400000), date |-> Ymd(2022, 2, 10)]>>,
     <<[project_id |-> "", co_cost |-> Num(900000), date |-> Ymd(2022, 1, 10)],
       [project_id |-> "P1", co_cost |-> NaN, date |-> BadDate]>>}

RuleCalls == {[fn |-> "ruleRiskScore", row |-> r, cos |-> c] : r \in RuleRows, c \in RuleCos}

\* year -> value series of at most MaxPoints points
SeriesYears == {Num(2020), Num(2021), Num(2022), Num(2023)}
SeriesValues == {Num(0), Num(500), Fin(-75, 2)}
SeriesSet ==
    UNION {[K -> SeriesValues] : K \in {X \in SUBSET SeriesYears : Cardinality(X) <= MaxPoints}}

LinRegCalls ==
    {[fn |-> "linReg", series |-> sr, horizon |-> h] : sr \in SeriesSet, h \in {1, MaxHorizon}}

ForecastCoefficients == {Num(0), Num(500), Fin(-75, 2), Fin(1, 3)}
ForecastCalls ==
    {[fn |-> "forecastNextYears", a |-> a, b |-> b, lastYear |-> y, horizon |-> h] :
        a \in ForecastCoefficients, b \in ForecastCoefficients,
        y \in {Num(2021), Num(2022)}, h \in 0..MaxHorizon}

\* budget / cost: overrun, under budget, zero budget, malformed budget, malformed cost
PortfolioMoney ==
    {[planned_budget |-> Num(100), actual_cost |-> Num(200)],
     [planned_budget |-> Num(100), actual_cost |-> Num(50)],
     [planned_budget |-> Num(0), actual_cost |-> Num(200)],
     [planned_budget |-> NaN, actual_cost |-> Num(50)],
     [planned_budget |-> Num(100), actual_cost |-> NaN]}

PortfolioRows ==
    {[project_id |-> "P1", start_date |-> Ymd(2022, 6, 15),
      planned_end |-> e.planned_end, actual_end |-> e.actual_end,
      planned_budget |-> m.planned_budget, actual_cost |-> m.actual_cost] :
        e \in EndPairs \ {[planned_end |-> NoDate, actual_end |-> NoDate]}, m \in PortfolioMoney}

PortfolioCalls ==
    {[fn |-> "portfolioOverrunProbability", rows |-> rs] : rs \in SeqsUpTo(PortfolioRows, MaxRows)}

\* a cohort of the prescriptive page: budgets 10^5 and 10^7, an empty budget
\* field (0), a malformed one (NaN) and the literal Infinity
CohortRows ==
    {[project_id |-> "P1", start_date |-> Ymd(2022, 6, 15),
      planned_end |-> Ymd(2023, 1, 1), actual_end |-> Ymd(2023, 2, 15),
      planned_budget |-> Num(100000), actual_cost |-> Num(100000)],
     [project_id |-> "P2", start_date |-> Ymd(2022, 6, 15),
      planned_end |-> Ymd(2023, 1, 1), actual_end |-> NoDate,
      planned_budget |-> Num(10000000), actual_cost |-> Num(100000000)],
     [project_id |-> "P3", start_date |-> Ymd(2021, 3, 1),
      planned_end |-> Ymd(2024, 3, 1), actual_end |-> Ymd(2023, 11, 22),
      planned_budget |-> Num(0), actual_cost |-> Num(9)],
     [project_id |-> "P4", start_date |-> Ymd(2021, 3, 1),
      planned_end |-> Ymd(2023, 1, 1), actual_end |-> Ymd(2023, 2, 15),
      planned_budget |-> NaN, actual_cost |-> Num(500)],
     [project_id |-> "P5", start_date |-> Ymd(2021, 3, 1),
      planned_end |-> Ymd(2023, 1, 1), actual_end |-> NoDate,
      planned_budget |-> PosInf, actual_cost |-> Num(500)]}

CohortCos ==
    {<<>>,
     <<[project_id |-> "P1", co_cost |-> Num(900000), date |-> Ymd(2022, 1, 10)]>>,
     <<[project_id |-> "P1", co_cost |-> Num(-5000), date |-> Ymd(2022, 1, 10)],
       [project_id |-> "P3", co_cost |-> Num(99), date |-> Ymd(2022, 2, 10)]>>}

\* values of randJitter(2) = (Math.random()*2 - 1)*2
JitterValues == {Num(-2), Num(0), Fin(3, 2)}

CohortCalls ==
    {[fn |-> "computeRiskScores", ps |-> ps, cos |-> c] :
        ps \in SeqsUpTo(CohortRows, MaxRows), c \in CohortCos}

--------------------------------------------------------------------------
(* Function-level checks: one call per behaviour *)

NotReturned == [fn |-> "none"]

FnInit ==
    /\ phase = "loading"
    /\ projects = <<>>
    /\ cos = <<>>
    /\ horizonValue = NaN
    /\ view = NoView
    /\ call \in RuleCalls \cup LinRegCalls \cup ForecastCalls \cup PortfolioCalls
                  \cup CohortCalls
    /\ ret = NotReturned
    /\ requests = <<>>
    /\ handlers = <<>>
    /\ csv = <<>>
    /\ dom = <<>>

Pending(fn) == call.fn = fn /\ ret.fn = "none"
PageUnchanged ==
    UNCHANGED <<phase, projects, cos, horizonValue, view, call, requests, handlers, csv, dom>>

\* scores = projects.map(p => ruleRiskScore(p, changeOrderTotalsByProject(cos)))
ApplyRuleRiskScore ==
    /\ Pending("ruleRiskScore")
    /\ ret' = [fn |-> call.fn,
               score |-> ruleRiskScore(call.row, changeOrderTotalsByProject(call.cos))]
    /\ PageUnchanged

\* reg = linReg(series); forecastNextYears(reg.a, reg.b, Math.max(...reg.xs), horizon)
ApplyLinReg ==
    /\ Pending("linReg")
    /\ LET reg == linReg(call.series)
       IN ret' = [fn |-> call.fn, reg |-> reg,
                  forecast |-> forecastNextYears(reg.a, reg.b, MaxSeq(reg.xs), call.horizon)]
    /\ PageUnchanged

ApplyForecastNextYears ==
    /\ Pending("forecastNextYears")
    /\ ret' = [fn |-> call.fn,
               out |-> forecastNextYears(call.a, call.b, call.lastYear, call.horizon)]
    /\ PageUnchanged

ApplyPortfolio ==
    /\ Pending("portfolioOverrunProbability")
    /\ ret' = [fn |-> call.fn, out |-> portfolioOverrunProbability(call.rows)]
    /\ PageUnchanged

\* riskById = computeRiskScores(projects, changeOrderTotals()) and the risk of
\* each recommendation, for every outcome of the random draws; changeOrderTotals
\* of prescriptive.js has the body of changeOrderTotalsByProject
ApplyComputeRiskScores ==
    /\ Pending("computeRiskScores")
    /\ \E jitters \in [1..Len(call.ps) -> JitterValues] :
          LET riskById == computeRiskScores(call.ps, changeOrderTotalsByProject(call.cos), jitters)
          IN ret' = [fn |-> call.fn, jitters |-> jitters, riskById |-> riskById,
                     risks |-> [i \in 1..Len(call.ps) |-> recRisk(call.ps[i], riskById)]]
    /\ PageUnchanged

FnNext ==
    \/ ApplyRuleRiskScore
    \/ ApplyLinReg
    \/ ApplyForecastNextYears
    \/ ApplyPortfolio
    \/ ApplyComputeRiskScores

FnSpec == FnInit /\ [][FnNext]_vars

--------------------------------------------------------------------------
(* Claims about the rule risk score *)

InUnitRange(x, hi) == isFinite(x) /\ 0 <= x.n /\ x.n <= hi * x.d

\* C1: for any project row and any change-order totals, the rule risk score is a
\* number in [0,100].
C1_RuleScoreBounded ==
    ret.fn = "ruleRiskScore" => InUnitRange(ret.score, 100)

\* the sum of the finite change-order costs recorded for project id
RECURSIVE CoSumFor(_, _, _)
CoSumFor(rows, id, i) ==
    IF i = 0 THEN Num(0)
    ELSE Add(CoSumFor(rows, id, i - 1),
             IF rows[i].project_id = id /\ isFinite(rows[i].co_cost)
             THEN rows[i].co_cost ELSE Num(0))

\* round(20*log10(max(1,budget)) + 0.05*slipDays + 0.000005*changeOrderTotal)
\* clamped to [0,100], slipDays = actual_end - planned_end (negative when early)
C2_Formula(row, rows) ==
    LET slipDays == Num(DaysFromEpoch(row.actual_end.y, row.actual_end.m, row.actual_end.d)
                        - DaysFromEpoch(row.planned_end.y, row.planned_end.m, row.planned_end.d))
        raw == Add(Add(Mul(Num(20), MathLog10(MathMax(Num(1), row.planned_budget))),
                       Mul(Fin(1, 20), slipDays)),
                   Mul(Fin(1, 200000), CoSumFor(rows, row.project_id, Len(rows))))
    IN MathMax(Num(0), MathMin(Num(100), MathRound(raw)))

\* C2: for every project with a finite budget and both end dates, the rule risk
\* score equals round(20*log10(max(1,budget)) + 0.05*slipDays +
\* 0.000005*changeOrderTotal) clamped to [0,100], with a signed slipDays.
C2_RuleScoreFormula ==
    (/\ ret.fn = "ruleRiskScore"
     /\ isFinite(call.row.planned_budget)
     /\ call.row.planned_end.k = "ymd"
     /\ call.row.actual_end.k = "ymd")
        => ret.score = C2_Formula(call.row, call.cos)

--------------------------------------------------------------------------
(* Claims about the portfolio overrun probability *)

\* C5: the adjusted probability is in [0,1] for every list of rows; for the
\* empty list the baseline is 0 and the adjusted value is 0.
C5_AdjustedInUnitInterval ==
    ret.fn = "portfolioOverrunProbability" =>
        /\ InUnitRange(ret.out.adj, 1)
        /\ call.rows = <<>> => ret.out.base = Num(0) /\ ret.out.adj = Num(0)

\* both clamps act: an all-overrun late cohort is cut to 1, the empty list to 0
C5_Witness ==
    /\ ret.fn = "portfolioOverrunProbability"
    /\ Len(call.rows) = MaxRows
    /\ ret.out.base = Num(1)
    /\ ret.out.adj = Num(1)

C6_EligibleRow(r) ==
    /\ r.planned_budget.k = "fin" /\ r.planned_budget.n > 0
    /\ r.actual_cost.k = "fin"
C6_OverRow(r) ==
    /\ C6_EligibleRow(r)
    /\ r.actual_cost.n * r.planned_budget.d > r.planned_budget.n * r.actual_cost.d
C6_BothDates(r) == r.planned_end.k = "ymd" /\ r.actual_end.k = "ymd"

\* the sum of the slips, in days, of the rows having both end dates
RECURSIVE C6_SlipSum(_, _)
C6_SlipSum(rows, i) ==
    IF i = 0 THEN 0
    ELSE C6_SlipSum(rows, i - 1)
         + (IF C6_BothDates(rows[i])
            THEN DaysFromEpoch(rows[i].actual_end.y, rows[i].actual_end.m, rows[i].actual_end.d)
                 - DaysFromEpoch(rows[i].planned_end.y, rows[i].planned_end.m, rows[i].planned_end.d)
            ELSE 0)

\* C6: baseline = (eligible rows with actual_cost > planned_budget) / (eligible
\* rows); adjusted = baseline + 0.05 when the mean schedule variance over the rows
\* having both end dates is > 0 and baseline - 0.02 otherwise, clamped to [0,1].
C6_BaselineAndAdjusted ==
    ret.fn = "portfolioOverrunProbability" =>
        LET rows == call.rows
            E == Cardinality({i \in 1..Len(rows) : C6_EligibleRow(rows[i])})
            O == Cardinality({i \in 1..Len(rows) : C6_OverRow(rows[i])})
            bump == IF C6_SlipSum(rows, Len(rows)) > 0 THEN 5 ELSE -2
            den == IF E = 0 THEN 100 ELSE 100 * E
            num == IF E = 0 THEN bump ELSE 100 * O + bump * E
            base == ret.out.base
            adj == ret.out.adj
        IN /\ isFinite(base) /\ isFinite(adj)
           /\ IF E = 0 THEN base.n = 0 ELSE base.n * E = O * base.d
           /\ IF num < 0 THEN adj.n = 0
              ELSE IF num > den THEN adj.n = adj.d
              ELSE adj.n * den = num * adj.d

\* one overrun among two eligible rows, late on average: 0.5 + 0.05
C6_Witness ==
    /\ ret.fn = "portfolioOverrunProbability"
    /\ ret.out.base = Fin(1, 2)
    /\ ret.out.adj = Fin(55, 100)

--------------------------------------------------------------------------
(* Claims about the trend fit *)

\* the sum of f over the set S
RECURSIVE SumOver(_, _)
SumOver(f, S) ==
    IF S = {} THEN Num(0)
    ELSE LET e == CHOOSE e \in S : TRUE IN Add(f[e], SumOver(f, S \ {e}))

\* C7: for every series with at least 2 distinct integer years, linReg returns the
\* ordinary-least-squares line: slope = (n*Sxy - Sx*Sy)/(n*Sxx - Sx^2) without the
\* max(1, ...) guard, intercept = (Sy - slope*Sx)/n, and the residuals satisfy the
\* normal equations of least squares.
C7_LinRegIsOLS ==
    (ret.fn = "linReg" /\ Cardinality(DOMAIN call.series) >= 2) =>
        LET sr == call.series
            K == DOMAIN sr
            n == Num(Cardinality(K))
            Sx == SumOver([x \in K |-> x], K)
            Sy == SumOver(sr, K)
            Sxx == SumOver([x \in K |-> Mul(x, x)], K)
            Sxy == SumOver([x \in K |-> Mul(x, sr[x])], K)
            slope == Div(Sub(Mul(n, Sxy), Mul(Sx, Sy)), Sub(Mul(n, Sxx), Mul(Sx, Sx)))
            resid == [x \in K |-> Sub(sr[x], Add(ret.reg.a, Mul(ret.reg.b, x)))]
        IN /\ ret.reg.b = slope
           /\ ret.reg.a = Div(Sub(Sy, Mul(slope, Sx)), n)
           /\ SumOver(resid, K) = Num(0)
           /\ SumOver([x \in K |-> Mul(x, resid[x])], K) = Num(0)

\* three points that are not on a line, with a falling trend
C7_Witness ==
    /\ ret.fn = "linReg"
    /\ call.series = (Num(2020) :> Num(500) @@ Num(2021) :> Num(0) @@ Num(2023) :> Fin(-75, 2))
    /\ Lt(ret.reg.b, Num(0))

\* C8: for a series with fewer than 2 points linReg returns slope 0 and intercept
\* equal to the single observed value (0 when the series is empty); forecasting
\* from a single point {Y: v} over horizon h yields (Y+1,v),...,(Y+h,v).
C8_DegenerateFit ==
    (ret.fn = "linReg" /\ Cardinality(DOMAIN call.series) < 2) =>
        /\ ret.reg.b = Num(0)
        /\ DOMAIN call.series = {} => ret.reg.a = Num(0)
        /\ \A Y \in DOMAIN call.series :
              /\ ret.reg.a = call.series[Y]
              /\ Len(ret.forecast.labels) = call.horizon
              /\ Len(ret.forecast.vals) = call.horizon
              /\ \A i \in 1..call.horizon :
                    /\ ret.forecast.labels[i] = Num(Y.n + i)
                    /\ ret.forecast.vals[i] = call.series[Y]

\* {2022: 500} with horizon 3 gives (2023,500),(2024,500),(2025,500)
C8_Witness ==
    /\ ret.fn = "linReg"
    /\ call.series = (Num(2022) :> Num(500))
    /\ call.horizon = 3
    /\ ret.forecast.labels = <<Num(2023), Num(2024), Num(2025)>>
    /\ ret.forecast.vals = <<Num(500), Num(500), Num(500)>>

\* C9: forecastNextYears(a, b, lastYear, horizon) returns exactly horizon points,
\* for the periods lastYear+1..lastYear+horizon in strictly increasing order, and
\* the value paired with each period p is a + b*p.
C9_ForecastPoints ==
    ret.fn = "forecastNextYears" =>
        LET out == ret.out
            a == call.a
            b == call.b
        IN /\ Len(out.labels) = call.horizon
           /\ Len(out.vals) = call.horizon
           /\ \A i \in 1..call.horizon :
                 /\ out.labels[i].k = "fin" /\ out.labels[i].d = 1
                 /\ out.labels[i].n = call.lastYear.n + i
                 /\ i > 1 => out.labels[i - 1].n < out.labels[i].n
                 /\ out.vals[i].k = "fin"
                 /\ out.vals[i].n * (a.d * b.d)
                      = (a.n * b.d + b.n * out.labels[i].n * a.d) * out.vals[i].d

\* a rising fractional trend over the full horizon
C9_Witness ==
    /\ ret.fn = "forecastNextYears"
    /\ call.horizon = MaxHorizon
    /\ call.b = Fin(1, 3)
    /\ call.a = Fin(-75, 2)
    /\ Len(ret.out.vals) = MaxHorizon
    /\ Lt(ret.out.vals[1], ret.out.vals[MaxHorizon])

--------------------------------------------------------------------------
(* Claims about the predictive render *)

AllFinite(s) == \A i \in 1..Len(s) : isFinite(s[i])

\* C10: when the input yields no data point, the by-year rollups return an empty
\* mapping and render emits no forecast point (average cost, schedule variance,
\* pipeline) whose period or value is non-finite.
C10_EmptySeriesHandled ==
    view.rendered =>
        /\ Len(projects) = 0 =>
              DOMAIN view.avgCostByYear = {} /\ DOMAIN view.schedByYear = {}
        /\ DOMAIN view.avgCostByYear = {} =>
              /\ AllFinite(view.costForecast.labels) /\ AllFinite(view.costForecast.vals)
              /\ AllFinite(view.pipeYears) /\ AllFinite(view.pipeVals)
        /\ DOMAIN view.schedByYear = {} =>
              AllFinite(view.schedForecast.labels) /\ AllFinite(view.schedForecast.vals)

--------------------------------------------------------------------------
(* Claims about the spread risk score *)

\* C3: with the jitter forced to 0, a cohort of at least 2 projects whose raw
\* composite values are not all identical gets scores whose minimum is exactly 0
\* and whose maximum is exactly 100.
C3_SpreadMinMax ==
    (/\ ret.fn = "computeRiskScores"
     /\ \A i \in 1..Len(call.ps) : ret.jitters[i] = Num(0)
     /\ Len(call.ps) >= 2
     /\ LET coMap == changeOrderTotalsByProject(call.cos)
        IN \E i, j \in 1..Len(call.ps) :
              rawComposite(call.ps[i], coMap) # rawComposite(call.ps[j], coMap))
        => /\ \A id \in DOMAIN ret.riskById : InUnitRange(ret.riskById[id], 100)
           /\ \E id \in DOMAIN ret.riskById : ret.riskById[id] = Num(0)
           /\ \E id \in DOMAIN ret.riskById : ret.riskById[id] = Num(100)

\* C4: for any cohort and any jitter in [-2,+2], every spread risk score and the
\* rounded risk of every recommendation is a number in [0,100].
C4_SpreadScoreBounded ==
    ret.fn = "computeRiskScores" =>
        /\ \A id \in DOMAIN ret.riskById : InUnitRange(ret.riskById[id], 100)
        /\ \A i \in 1..Len(ret.risks) : InUnitRange(ret.risks[i], 100)

--------------------------------------------------------------------------
(* Descriptive dashboard (src/js/descriptive.js): rollups.  The file registers *)
(* two DOMContentLoaded handlers; the rollups of the first (lines 131-174)     *)
(* have the bodies of the second (lines 490-532), which are modelled here.     *)

\* out[y] = (out[y] || 0) + 1 for every row, y = new Date(r.start_date).getFullYear()
rollupCountByYear(rows) == YearCountsUpTo(rows, Len(rows))

\* the forEach of rollupAvgActualCostByYear with the isFinite test dropped
rollupAvgActualCostByYearAccUnguarded(rows) ==
    SumsCnts([i \in 1..Len(rows) |->
                [skip |-> FALSE,
                 y |-> getFullYear(NewDate(rows[i].start_date)),
                 val |-> rows[i].actual_cost]], Len(rows))

\* sums and counts of rollupAvgActualCostByYear when its forEach is done; the
\* function returns MeansOf of them
rollupAvgActualCostByYearAcc(rows) ==
    SumsCnts([i \in 1..Len(rows) |->
                [skip |-> ~isFinite(rows[i].actual_cost),
                 y |-> getFullYear(NewDate(rows[i].start_date)),
                 val |-> rows[i].actual_cost]], Len(rows))

\* the rows.forEach of a by-month rollup over Array(12).fill(0), twice:
\* sums[m] += v; counts[m] += 1 after i rows; entries[i] holds whether row i is
\* passed over, its month index and its value
RECURSIVE MonthSumsCnts(_, _)
MonthSumsCnts(entries, i) ==
    IF i = 0 THEN [sums |-> [m \in 1..12 |-> Num(0)], cnts |-> [m \in 1..12 |-> Num(0)]]
    ELSE LET acc == MonthSumsCnts(entries, i - 1)
             e == entries[i]
         IN IF e.skip THEN acc
            ELSE [sums |-> [acc.sums EXCEPT ![e.m.n + 1] = Add(@, e.val)],
                  cnts |-> [acc.cnts EXCEPT ![e.m.n + 1] = Add(@, Num(1))]]

\* sums.map((s, i) => (counts[i] ? s / counts[i] : 0))
MonthMeansOf(acc) ==
    [m \in 1..12 |-> IF acc.cnts[m] # Num(0) THEN Div(acc.sums[m], acc.cnts[m]) ELSE Num(0)]

\* sums and counts of rollupAvgActualCostByMonth; the function returns
\* MonthMeansOf of them
rollupAvgActualCostByMonthAcc(rows, year) ==
    MonthSumsCnts([i \in 1..Len(rows) |->
                     LET d == NewDate(rows[i].start_date)
                     IN [skip |-> ~(~DateIsNaN(d) /\ getFullYear(d) = year
                                      /\ isFinite(rows[i].actual_cost)),
                         m |-> getMonth(d), val |-> rows[i].actual_cost]],
                  Len(rows))

--------------------------------------------------------------------------
(* Diagnostic dashboard (src/unnamed/part_001): rollups *)

projectCostVarianceRatio(r) ==
    LET p == r.planned_budget
        a == r.actual_cost
    IN IF ~isFinite(p) \/ Le(p, Num(0)) \/ ~isFinite(a) THEN NaN
       ELSE Div(Sub(a, p), p)

\* const schedVarAccessor = (r) => {...}
schedVarAccessor(r) ==
    LET pe == parseDate(r.planned_end)
        ae == parseDate(r.actual_end)
    IN IF ~Truthy(pe) \/ ~Truthy(ae) \/ DateIsNaN(pe) \/ DateIsNaN(ae) THEN NaN
       ELSE DayDiff(ae, pe)

\* accessor(r) for the two accessors renderCharts passes to the rollups
Access(accessor, r) ==
    IF accessor = "projectCostVarianceRatio" THEN projectCostVarianceRatio(r)
    ELSE schedVarAccessor(r)

\* sums and counts of rollupAvgByYear when its forEach is done
rollupAvgByYearAcc(rows, accessor) ==
    SumsCnts([i \in 1..Len(rows) |->
                [skip |-> ~isFinite(Access(accessor, rows[i])),
                 y |-> getFullYear(NewDate(rows[i].start_date)),
                 val |-> Access(accessor, rows[i])]], Len(rows))

\* sums and counts of rollupAvgByMonth when its forEach is done
rollupAvgByMonthAcc(rows, year, accessor) ==
    MonthSumsCnts([i \in 1..Len(rows) |->
                     LET d == NewDate(rows[i].start_date)
                     IN [skip |-> DateIsNaN(d) \/ getFullYear(d) # year
                                    \/ ~isFinite(Access(accessor, rows[i])),
                         m |-> getMonth(d), val |-> Access(accessor, rows[i])]],
                  Len(rows))

--------------------------------------------------------------------------
(* Prescriptive dashboard (src/js/prescriptive.js): one recommendation *)

\* randJitter with ten times the amount
randJitterWide(amt, u) == Mul(Sub(Mul(u, Num(2)), Num(1)), Mul(amt, Num(10)))

\* const randJitter = (amt) => (Math.random() * 2 - 1) * amt, u the value drawn
randJitter(amt, u) == Mul(Sub(Mul(u, Num(2)), Num(1)), amt)

\* the first three lines of chooseAction: plan, coShare, overPct
actionDrivers(p, coTot, over) ==
    LET plan == MathMax(Num(1), p.planned_budget)
    IN [plan |-> plan,
        coShare |-> Div(coTot, MathMax(Num(1), Add(over, coTot))),
        overPct |-> Div(over, plan)]

\* chooseAction with the slip rule tested before the change-order rule
chooseActionSlipFirst(p, coTot, slip, over, u) ==
    LET dr == actionDrivers(p, coTot, over)
    IN IF Ge(slip, Num(45)) /\ Lt(dr.overPct, Fin(5, 100)) THEN "Schedule tune-up"
       ELSE IF Ge(dr.coShare, Fin(55, 100)) /\ Ge(dr.overPct, Fin(3, 100))
       THEN (IF Lt(u, Fin(6, 10)) THEN "Scope alignment" ELSE "Design clarification")
       ELSE IF /\ Ge(dr.plan, Num(5000000))
               /\ (Ge(dr.overPct, Fin(2, 100)) \/ Ge(dr.coShare, Fin(35, 100)))
       THEN "Supplier/subcontractor review"
       ELSE IF Lt(u, Fin(1, 2)) THEN "Design clarification" ELSE "Schedule tune-up"

\* u is the value Math.random() returns in the branch that draws one
chooseAction(p, coTot, slip, over, u) ==
    LET dr == actionDrivers(p, coTot, over)
    IN IF Ge(dr.coShare, Fin(55, 100)) /\ Ge(dr.overPct, Fin(3, 100))
       THEN (IF Lt(u, Fin(6, 10)) THEN "Scope alignment" ELSE "Design clarification")
       ELSE IF Ge(slip, Num(45)) /\ Lt(dr.overPct, Fin(5, 100)) THEN "Schedule tune-up"
       ELSE IF /\ Ge(dr.plan, Num(5000000))
               /\ (Ge(dr.overPct, Fin(2, 100)) \/ Ge(dr.coShare, Fin(35, 100)))
       THEN "Supplier/subcontractor review"
       ELSE IF Lt(u, Fin(1, 2)) THEN "Design clarification" ELSE "Schedule tune-up"

CAT_PROFILE ==
    [c \in {"Scope alignment", "Design clarification",
            "Supplier/subcontractor review", "Schedule tune-up"} |->
        CASE c = "Scope alignment" ->
               [impact |-> <<Fin(75, 100), Fin(95, 100)>>, effort |-> <<Fin(45, 100), Fin(7, 10)>>]
          [] c = "Design clarification" ->
               [impact |-> <<Fin(55, 100), Fin(8, 10)>>, effort |-> <<Fin(35, 100), Fin(55, 100)>>]
          [] c = "Supplier/subcontractor review" ->
               [impact |-> <<Fin(45, 100), Fin(7, 10)>>, effort |-> <<Fin(45, 100), Fin(65, 100)>>]
          [] c = "Schedule tune-up" ->
               [impact |-> <<Fin(35, 100), Fin(55, 100)>>, effort |-> <<Fin(25, 100), Fin(45, 100)>>]]

\* clamp(lo + Math.random()*(hi-lo) + randJitter(0.02), 0, 1); u and v are the
\* two values drawn, in the order the expression draws them
sampleRange(range, u, v) ==
    clamp(Add(Add(range[1], Mul(u, Sub(range[2], range[1]))), randJitter(Fin(2, 100), v)),
          Num(0), Num(1))

estimateSavings(p, cat, over, coTot) ==
    LET plan == MathMax(Num(1), p.planned_budget)
        pct == CASE cat = "Scope alignment" ->
                      Add(Fin(10, 100), MathMin(Fin(6, 100), Div(coTot, plan)))
                 [] cat = "Design clarification" -> Fin(7, 100)
                 [] cat = "Supplier/subcontractor review" -> Fin(5, 100)
                 [] cat = "Schedule tune-up" ->
                      Add(Fin(3, 100),
                          MathMin(Fin(2, 100),
                                  Div(MathMax(Num(0), scheduleSlipDays(p)), Num(180))))
                 [] OTHER -> Fin(4, 100)
        base == Add(over, coTot)
        capped == MathMin(Mul(Fin(7, 100), plan), Mul(pct, base))
    IN MathMax(Num(0), capped)

\* the callback of projects.map in render(), without the risk lookup: draws[1]
\* is drawn by chooseAction, draws[2..3] by the impact sample, draws[4..5] by the
\* effort sample
recommendation(p, coMap, draws) ==
    LET slip == MathMax(Num(0), scheduleSlipDays(p))
        over == MathMax(Num(0), costOverrun(p))
        coTot == MathMax(Num(0), GetOr0(coMap, p.project_id))
        category == chooseAction(p, coTot, slip, over, draws[1])
        profile == CAT_PROFILE[category]
    IN [id |-> p.project_id, category |-> category,
        impact |-> sampleRange(profile.impact, draws[2], draws[3]),
        effort |-> sampleRange(profile.effort, draws[4], draws[5]),
        savings |-> estimateSavings(p, category, over, coTot),
        overrun |-> over, co_total |-> coTot, plan |-> p.planned_budget,
        slip |-> slip, drivers |-> actionDrivers(p, coTot, over)]

\* values of Math.random(), which lies in [0, 1)
RandomDraws == {Num(0), Fin(1, 2), Fin(99, 100)}

\* budget and cost: 4% and 3% over 1,000,000; 5% over and 10% under 10,000,000;
\* 2% over 5,000,000; on budget; an empty budget field (0), a malformed one
\* (NaN), a negative one and the literal Infinity
RecMoney ==
    {[planned_budget |-> Num(1000000), actual_cost |-> Num(1040000)],
     [planned_budget |-> Num(1000000), actual_cost |-> Num(1030000)],
     [planned_budget |-> Num(10000000), actual_cost |-> Num(10500000)],
     [planned_budget |-> Num(10000000), actual_cost |-> Num(9000000)],
     [planned_budget |-> Num(5000000), actual_cost |-> Num(5100000)],
     [planned_budget |-> Num(1000), actual_cost |-> Num(1000)],
     [planned_budget |-> Num(0), actual_cost |-> Num(9)],
     [planned_budget |-> NaN, actual_cost |-> Num(500)],
     [planned_budget |-> Num(-50), actual_cost |-> Num(20)],
     [planned_budget |-> PosInf, actual_cost |-> Num(500)]}

\* one project, its change orders (none, two of 70,000 in all, one of 1,000,000)
\* and the end dates: 45 days late, in flight, unparsable planned end
RecCalls ==
    {[fn |-> "recommendation",
      p |-> [project_id |-> "P1", start_date |-> Ymd(2022, 6, 15),
             planned_end |-> e.planned_end, actual_end |-> e.actual_end,
             planned_budget |-> m.planned_budget, actual_cost |-> m.actual_cost],
      cos |-> c] :
        m \in RecMoney,
        e \in {[planned_end |-> Ymd(2023, 1, 1), actual_end |-> Ymd(2023, 2, 15)],
               [planned_end |-> Ymd(2023, 1, 1), actual_end |-> NoDate],
               [planned_end |-> BadDate, actual_end |-> Ymd(2023, 2, 15)]},
        c \in {<<>>,
               <<[project_id |-> "P1", co_cost |-> Num(30000), date |-> Ymd(2022, 1, 10)],
                 [project_id |-> "P1", co_cost |-> Num(40000), date |-> Ymd(2022, 2, 10)]>>,
               <<[project_id |-> "P1", co_cost |-> Num(1000000), date |-> Ymd(2022, 1, 10)]>>}}

--------------------------------------------------------------------------
(* Prescriptive dashboard: render(), the sorted list and the table *)

MaxRecs == 2

\* recs.sort((a,b)=> b.risk - a.risk || b.savings - a.savings): the orders the
\* sort can leave, as permutations of the indices of recs.  A compare value of
\* NaN is read as +0.  The sort is stable, so with a consistent comparator the
\* outcome is the one order in which every earlier element compares below the
\* later one or compares equal and came first; when the comparator admits no
\* such order (NaN risks) the outcome is implementation-defined.
SortOutcomes(recs) ==
    LET n == Len(recs)
        Perms == {q \in [1..n -> 1..n] : \A x, y \in 1..n : q[x] = q[y] => x = y}
        compare(a, b) == OrElse(Sub(b.risk, a.risk), Sub(b.savings, a.savings))
        Before(i, j) == LET v == compare(recs[i], recs[j])
                        IN Lt(v, Num(0)) \/ (~Gt(v, Num(0)) /\ i < j)
        Sorted == {q \in Perms : \A x, y \in 1..n : x < y => Before(q[x], q[y])}
    IN IF Sorted # {} THEN Sorted ELSE Perms

\* calls of render(): the loaded projects and change orders
RenderCalls ==
    {[fn |-> "render", ps |-> ps, cos |-> c] :
        ps \in SeqsUpTo({r \in CohortRows : r.project_id \in {"P1", "P2", "P4"}}, MaxRecs),
        c \in CohortCos}

--------------------------------------------------------------------------
(* Diagnostic dashboard: the change-order reason of the load step.  A string  *)
(* is the sequence of its characters.                                        *)

MaxReasonLen == 4

\* String.prototype.trim()
RECURSIVE trim(_)
trim(s) ==
    IF s = <<>> THEN s
    ELSE IF s[1] = " " THEN trim(Tail(s))
    ELSE IF s[Len(s)] = " " THEN trim(SubSeq(s, 1, Len(s) - 1))
    ELSE s

\* raw.replace(/\.0+$/, ""): a dot followed by one or more zeros, up to the end
replaceDotZeros(s) ==
    LET k == CHOOSE j \in 0..Len(s) :
                /\ \A i \in (Len(s) - j + 1)..Len(s) : s[i] = "0"
                /\ (j < Len(s) => s[Len(s) - j] # "0")
    IN IF k >= 1 /\ k < Len(s) /\ s[Len(s) - k] = "."
       THEN SubSeq(s, 1, Len(s) - k - 1) ELSE s

REASON_MAP ==
    (<<"0">> :> "Scope Change") @@ (<<"1">> :> "Client Request")
        @@ (<<"2">> :> "Unforeseen Conditions") @@ (<<"3">> :> "Design Revision")

\* co_reason of allCOs: a label of REASON_MAP or "Unspecified" (k = "label"), or
\* the trimmed text of the field (k = "raw"); d.defined is false when the row has
\* no co_reason column
normalizeReason(d) ==
    LET raw == trim(IF d.defined THEN d.chars ELSE <<>>)
        numericish == replaceDotZeros(raw)
    IN IF raw \in DOMAIN REASON_MAP
       THEN [k |-> "label", text |-> REASON_MAP[raw], chars |-> <<>>]
       ELSE IF numericish \in DOMAIN REASON_MAP
       THEN [k |-> "label", text |-> REASON_MAP[numericish], chars |-> <<>>]
       ELSE IF raw # <<>> THEN [k |-> "raw", text |-> "", chars |-> raw]
       ELSE [k |-> "label", text |-> "Unspecified", chars |-> <<>>]

\* the co_reason field of a change_orders.csv row: absent, or a text over blanks,
\* mapped and unmapped digits, the dot and a letter
ReasonCalls ==
    {[fn |-> "normalizeReason", d |-> [defined |-> FALSE, chars |-> <<>>]]}
    \cup {[fn |-> "normalizeReason", d |-> [defined |-> TRUE, chars |-> cs]] :
            cs \in SeqsUpTo({" ", "0", "2", "7", ".", "x"}, MaxReasonLen)}

--------------------------------------------------------------------------
(* Diagnostic dashboard: overrun attribution *)

\* coTotalsPerProject(coRows): { project_id -> total co_cost }, non-finite costs
\* counted as 0, rows without an id under "__missing__"
coTotalsPerProject(coRows) == changeOrderTotalsUpTo(coRows, Len(coRows))

\* overrunAttributionByTime(projects, coRows, isAll, yearInt).  `parts` keeps, per
\* project, what one pass of projects.forEach computed (skip: the callback
\* returned early); `out` is the bucket object; labels, coVals and otherVals are
\* what the function returns.  yearInt is not read by the function.
overrunAttributionByTime(ps, coRows, isAll) ==
    LET coTotals == coTotalsPerProject(coRows)
        part(r) ==
            LET p == r.planned_budget
                a == r.actual_cost
                overrun == MathMax(Sub(a, p), Num(0))
                coSum == GetOr0(coTotals, r.project_id)
                attrCO == MathMin(overrun, coSum)
                d == NewDate(r.start_date)
            IN [skip |-> ~isFinite(p) \/ ~isFinite(a) \/ Le(overrun, Num(0)),
                overrun |-> overrun,
                co |-> attrCO,
                other |-> MathMax(Sub(overrun, attrCO), Num(0)),
                key |-> IF isAll THEN getFullYear(d) ELSE getMonth(d)]
        parts == [i \in 1..Len(ps) |-> part(ps[i])]
        RECURSIVE Out(_)
        Out(i) ==
            IF i = 0 THEN EmptyObj
            ELSE LET o == Out(i - 1)
                     e == parts[i]
                     was == IF e.key \in DOMAIN o THEN o[e.key]
                            ELSE [co |-> Num(0), other |-> Num(0)]
                 IN IF e.skip THEN o
                    ELSE Put(o, e.key, [co |-> Add(was.co, e.co),
                                        other |-> Add(was.other, e.other)])
        out == Out(Len(ps))
        labels == IF isAll THEN SortedKeys(out) ELSE [m \in 1..12 |-> Num(m - 1)]
        \* by year: out[k]?.co || 0; by month: Array(12).fill(0), then the
        \* buckets of out written at their month index (a NaN key is no index)
        Val(k, f) == IF k \in DOMAIN out
                     THEN (IF isAll THEN OrElse(out[k][f], Num(0)) ELSE out[k][f])
                     ELSE Num(0)
    IN [parts |-> parts, out |-> out, labels |-> labels,
        coVals |-> [j \in 1..Len(labels) |-> Val(labels[j], "co")],
        otherVals |-> [j \in 1..Len(labels) |-> Val(labels[j], "other")]]

--------------------------------------------------------------------------
(* Function-level checks of the rollups, from the CSV text to the means *)

\* projects.csv rows as text: two starts in March 2021 and one in July 2021, a
\* malformed budget, an unparsable start date, an unparsable planned end with a
\* malformed cost, empty budget and cost fields, a negative budget
AggCsvProjects ==
    {[project_id |-> "P1", start_date |-> Ymd(2021, 3, 1),
      planned_end |-> Ymd(2023, 1, 1), actual_end |-> Ymd(2023, 2, 15),
      planned_budget |-> Lit(Num(1000)), actual_cost |-> Lit(Num(1200))],
     [project_id |-> "P2", start_date |-> Ymd(2021, 7, 15),
      planned_end |-> Ymd(2023, 1, 1), actual_end |-> NoDate,
      planned_budget |-> Lit(Num(100)), actual_cost |-> Lit(Num(80))],
     [project_id |-> "P3", start_date |-> Ymd(2021, 3, 20),
      planned_end |-> Ymd(2024, 3, 1), actual_end |-> Ymd(2023, 11, 22),
      planned_budget |-> BadField, actual_cost |-> Lit(Num(500))],
     [project_id |-> "P4", start_date |-> BadDate,
      planned_end |-> Ymd(2023, 1, 1), actual_end |-> Ymd(2023, 2, 15),
      planned_budget |-> Lit(Num(1000)), actual_cost |-> Lit(Num(1300))],
     [project_id |-> "P5", start_date |-> Ymd(2022, 6, 15),
      planned_end |-> BadDate, actual_end |-> Ymd(2023, 2, 15),
      planned_budget |-> Lit(Num(10)), actual_cost |-> BadField],
     [project_id |-> "P6", start_date |-> Ymd(2022, 6, 15),
      planned_end |-> Ymd(2023, 1, 1), actual_end |-> Ymd(2023, 1, 11),
      planned_budget |-> EmptyField, actual_cost |-> EmptyField],
     [project_id |-> "P7", start_date |-> Ymd(2022, 6, 2),
      planned_end |-> Ymd(2023, 1, 1), actual_end |-> Ymd(2023, 1, 1),
      planned_budget |-> Lit(Num(-50)), actual_cost |-> Lit(Num(20))]}

\* one call per page: the rows of projects.csv and the year of the by-month view
AggCalls ==
    {[fn |-> f, pr |-> pr, year |-> y] :
        f \in {"descriptive", "diagnostic"}, pr \in SeqsUpTo(AggCsvProjects, MaxRows),
        y \in {Num(2021), Num(2022)}}
    \cup {[fn |-> "predictive", pr |-> pr, year |-> NaN] :
            pr \in SeqsUpTo(AggCsvProjects, MaxRows)}

\* calls of the attribution: project rows of projects.csv, and change orders of
\* P1 and P4: below the overrun, above it, a credit, a malformed cost
AttribCalls ==
    {[fn |-> "overrunAttributionByTime", pr |-> pr, co |-> co, isAll |-> b] :
        pr \in SeqsUpTo(AggCsvProjects, MaxRows),
        co \in SeqsUpTo({[project_id |-> id, co_cost |-> c, date |-> Ymd(2022, 1, 10)] :
                            id \in {"P1", "P4"},
                            c \in {Lit(Num(50)), Lit(Num(500)), Lit(Num(-30)), BadField}},
                        MaxCos),
        b \in BOOLEAN}

UnitInit ==
    /\ phase = "loading"
    /\ projects = <<>>
    /\ cos = <<>>
    /\ horizonValue = NaN
    /\ view = NoView
    /\ call \in AggCalls \cup RecCalls \cup ReasonCalls \cup AttribCalls
                  \cup RenderCalls
    /\ ret = NotReturned
    /\ requests = <<>>
    /\ handlers = <<>>
    /\ csv = <<>>
    /\ dom = <<>>

\* descriptive page: the row mapping of the load callback, then the total of
\* updateKPIs and the by-year and by-month rollups of renderProjectCharts
ApplyDescriptive ==
    /\ Pending("descriptive")
    /\ LET rows == [i \in 1..Len(call.pr) |-> ProjectRow(call.pr[i])]
           yearAcc == rollupAvgActualCostByYearAcc(rows)
           monthAcc == rollupAvgActualCostByMonthAcc(rows, call.year)
       IN ret' = [fn |-> call.fn, rows |-> rows, total |-> Len(rows),
                  countByYear |-> rollupCountByYear(rows),
                  yearAcc |-> [actual_cost |-> yearAcc],
                  yearMeans |-> [actual_cost |-> MeansOf(yearAcc)],
                  monthAcc |-> [actual_cost |-> monthAcc],
                  monthMeans |-> [actual_cost |-> MonthMeansOf(monthAcc)]]
    /\ PageUnchanged

\* diagnostic page: the row mapping, then the by-year and by-month rollups of the
\* cost-variance and schedule-variance charts
ApplyDiagnostic ==
    /\ Pending("diagnostic")
    /\ LET rows == [i \in 1..Len(call.pr) |-> ProjectRow(call.pr[i])]
           yearAcc == [a \in {"projectCostVarianceRatio", "schedVarAccessor"} |->
                         rollupAvgByYearAcc(rows, a)]
           monthAcc == [a \in {"projectCostVarianceRatio", "schedVarAccessor"} |->
                          rollupAvgByMonthAcc(rows, call.year, a)]
       IN ret' = [fn |-> call.fn, rows |-> rows,
                  yearAcc |-> yearAcc,
                  yearMeans |-> [a \in DOMAIN yearAcc |-> MeansOf(yearAcc[a])],
                  monthAcc |-> monthAcc,
                  monthMeans |-> [a \in DOMAIN monthAcc |-> MonthMeansOf(monthAcc[a])]]
    /\ PageUnchanged

\* predictive page: the row mapping, then the two yearly series render() fits
ApplyPredictiveSeries ==
    /\ Pending("predictive")
    /\ LET rows == [i \in 1..Len(call.pr) |-> ProjectRow(call.pr[i])]
       IN ret' = [fn |-> call.fn, rows |-> rows,
                  yearMeans |-> [actual_cost |-> avgActualCostByYear(rows),
                                 schedVarAccessor |-> avgScheduleVarianceByYear(rows)]]
    /\ PageUnchanged

\* prescriptive page: recs = projects.map(p => {...}) for one project, for every
\* outcome of the five draws
ApplyRecommendation ==
    /\ Pending("recommendation")
    /\ \E draws \in [1..5 -> RandomDraws] :
          ret' = [fn |-> call.fn, draws |-> draws,
                  rec |-> recommendation(call.p, changeOrderTotalsByProject(call.cos), draws)]
    /\ PageUnchanged

\* diagnostic page: the row mappings of the load callback, then the attribution
\* renderCharts hands to the stacked chart
ApplyOverrunAttribution ==
    /\ Pending("overrunAttributionByTime")
    /\ LET rows == [i \in 1..Len(call.pr) |-> ProjectRow(call.pr[i])]
           coRows == [i \in 1..Len(call.co) |-> CoRow(call.co[i])]
       IN ret' = [fn |-> call.fn, rows |-> rows, coRows |-> coRows,
                  attrib |-> overrunAttributionByTime(rows, coRows, call.isAll)]
    /\ PageUnchanged

\* prescriptive page: render() up to the table, for every outcome of the risk
\* jitter of each project and of its action draw, every order the sort can leave
\* and every value of the top-N selector; the impact and effort samples reuse
\* the action draw.  recOf[i][d] is the callback of projects.map for project i
\* when its draw is d, risks[i] the rounded score of project i.
ApplyRender ==
    /\ Pending("render")
    /\ LET ps == call.ps
           n == Len(ps)
           coMap == changeOrderTotalsByProject(call.cos)
           RECURSIVE RecByDraw(_, _)
           RecByDraw(i, D) ==
               IF D = {} THEN <<>>
               ELSE LET d == CHOOSE d \in D : TRUE
                    IN (d :> recommendation(ps[i], coMap, [k \in 1..5 |-> d]))
                          @@ RecByDraw(i, D \ {d})
           RECURSIVE RecOf(_)
           RecOf(i) == IF i = 0 THEN <<>>
                       ELSE Append(RecOf(i - 1), RecByDraw(i, RandomDraws))
           RECURSIVE Risks(_, _)
           Risks(riskById, i) ==
               IF i = 0 THEN <<>>
               ELSE Append(Risks(riskById, i - 1), recRisk(ps[i], riskById))
       IN \E recOf \in {RecOf(n)}, jitters \in [1..n -> JitterValues] :
          \E risks \in {Risks(computeRiskScores(ps, coMap, jitters), n)},
             draws \in [1..n -> RandomDraws] :
             LET mapped == [i \in 1..n |->
                              [id |-> recOf[i][draws[i]].id,
                               category |-> recOf[i][draws[i]].category,
                               savings |-> recOf[i][draws[i]].savings,
                               risk |-> risks[i],
                               index |-> i]]
             IN \E order \in SortOutcomes(mapped), v \in {NaN, Num(1), Num(2)} :
                   LET recs == [x \in 1..n |-> mapped[order[x]]]
                       \* parseInt(el.topN.value, 10) || 10
                       topN == OrElse(v, Num(10)).n
                       \* recs.slice(0, topN)
                       shown == IF topN >= 0 THEN (IF topN < n THEN topN ELSE n)
                                ELSE (IF n + topN > 0 THEN n + topN ELSE 0)
                   IN ret' = [fn |-> call.fn, topNValue |-> v, recs |-> recs,
                              table |-> SubSeq(recs, 1, shown),
                              kRec |-> n,
                              kHigh |-> Cardinality({x \in 1..n :
                                                       Ge(recs[x].risk, Num(80))})]
    /\ PageUnchanged

\* diagnostic page: the co_reason of one row of coRows.map
ApplyNormalizeReason ==
    /\ Pending("normalizeReason")
    /\ ret' = [fn |-> call.fn, co_reason |-> normalizeReason(call.d)]
    /\ PageUnchanged

UnitNext ==
    \/ ApplyDescriptive
    \/ ApplyDiagnostic
    \/ ApplyPredictiveSeries
    \/ ApplyRecommendation
    \/ ApplyNormalizeReason
    \/ ApplyOverrunAttribution
    \/ ApplyRender

UnitSpec == UnitInit /\ [][UnitNext]_vars

--------------------------------------------------------------------------
(* Claims about the rollups *)

\* the value a mean rollup reads from a row
C11_Value(field, r) ==
    IF field = "actual_cost" THEN r.actual_cost ELSE Access(field, r)

\* the rows of one year bucket (the key of an unparsable start date is NaN) and of
\* one month of a year, that hold a finite value
C11_YearRows(rows, field, key) ==
    {i \in 1..Len(rows) : /\ getFullYear(NewDate(rows[i].start_date)) = key
                          /\ isFinite(C11_Value(field, rows[i]))}
C11_MonthRows(rows, field, year, m) ==
    {i \in 1..Len(rows) : /\ rows[i].start_date.k = "ymd"
                          /\ rows[i].start_date.y = year.n
                          /\ rows[i].start_date.m = m
                          /\ isFinite(C11_Value(field, rows[i]))}
C11_Sum(rows, field, S) == SumOver([i \in S |-> C11_Value(field, rows[i])], S)

\* C11: in every mean-by-period rollup (descriptive average cost, diagnostic cost
\* and schedule variance, predictive yearly series; by year and by month) the
\* running sum of a period is the sum of its finite values, the running count is
\* their number, a period is reported by year exactly when it has a finite value,
\* and its mean is that sum over that count (0 for a month without a value).
C11_MeanRollupsSkipNonFinite ==
    (ret.fn \in {"descriptive", "diagnostic", "predictive"}) =>
        /\ \A f \in DOMAIN ret.yearMeans :
              /\ \A i \in 1..Len(ret.rows) :
                    isFinite(C11_Value(f, ret.rows[i])) =>
                        getFullYear(NewDate(ret.rows[i].start_date)) \in DOMAIN ret.yearMeans[f]
              /\ \A key \in DOMAIN ret.yearMeans[f] :
                    LET S == C11_YearRows(ret.rows, f, key)
                    IN /\ S # {}
                       /\ ret.yearMeans[f][key] =
                              Div(C11_Sum(ret.rows, f, S), Num(Cardinality(S)))
                       /\ ret.fn # "predictive" =>
                              /\ ret.yearAcc[f].sums[key] = C11_Sum(ret.rows, f, S)
                              /\ ret.yearAcc[f].cnts[key] = Num(Cardinality(S))
        /\ ret.fn # "predictive" =>
              \A f \in DOMAIN ret.monthMeans : \A m \in 1..12 :
                  LET S == C11_MonthRows(ret.rows, f, call.year, m)
                  IN /\ ret.monthAcc[f].sums[m] = C11_Sum(ret.rows, f, S)
                     /\ ret.monthAcc[f].cnts[m] = Num(Cardinality(S))
                     /\ ret.monthMeans[f][m] =
                            IF S = {} THEN Num(0)
                            ELSE Div(C11_Sum(ret.rows, f, S), Num(Cardinality(S)))

\* a descriptive rollup of two rows of June 2022, one with a malformed cost
\* (NaN) and one with a finite cost, has returned
C11_Witness ==
    /\ ret.fn = "descriptive"
    /\ call.year = Num(2022)
    /\ \E i, j \in 1..Len(ret.rows) :
          /\ isNaN(ret.rows[i].actual_cost)
          /\ isFinite(ret.rows[j].actual_cost)
          /\ ret.rows[i].start_date = ret.rows[j].start_date
          /\ ret.rows[j].start_date.k = "ymd"
          /\ ret.rows[j].start_date.y = 2022

\* the years of the rows whose start_date parses
C12_ParsedYears(rows) ==
    {Num(rows[i].start_date.y) : i \in {j \in 1..Len(rows) : rows[j].start_date.k = "ymd"}}

\* C12: a row whose start_date cannot be parsed is counted in the total, but it is
\* in no bucket and makes no bucket: the count-by-year buckets are the years of
\* the rows with a parsable start_date, each counting those rows only, the
\* mean-by-year buckets (the yearly series of the trend fit included) are among
\* those years, and the by-month counts count rows with a parsable date only.
C12_UnparsableDateExcluded ==
    (ret.fn \in {"descriptive", "diagnostic", "predictive"}) =>
        /\ ret.fn = "descriptive" =>
              /\ ret.total = Len(ret.rows)
              /\ DOMAIN ret.countByYear = C12_ParsedYears(ret.rows)
              /\ \A key \in DOMAIN ret.countByYear :
                    ret.countByYear[key] =
                        Num(Cardinality({i \in 1..Len(ret.rows) :
                                            /\ ret.rows[i].start_date.k = "ymd"
                                            /\ ret.rows[i].start_date.y = key.n}))
        /\ \A f \in DOMAIN ret.yearMeans :
              DOMAIN ret.yearMeans[f] \subseteq C12_ParsedYears(ret.rows)
        /\ ret.fn # "predictive" =>
              \A f \in DOMAIN ret.monthAcc : \A m \in 1..12 :
                  ret.monthAcc[f].cnts[m] =
                      Num(Cardinality(C11_MonthRows(ret.rows, f, call.year, m)))

\* the rows of a year bucket whose actual_cost field is a numeric literal in the
\* CSV text, and the mean of those literals
C13_WellFormed(pr, key) ==
    {i \in 1..Len(pr) : /\ getFullYear(NewDate(pr[i].start_date)) = key
                        /\ pr[i].actual_cost.k = "lit"}
C13_Mean(pr, S) == Div(SumOver([i \in S |-> pr[i].actual_cost.v], S), Num(Cardinality(S)))

\* C13: from the CSV text through the row mapping to the rollup, a row whose
\* actual_cost field is empty or malformed is left out of the mean of its period
\* and never counted as 0: the yearly means of the actual cost (descriptive chart,
\* predictive series) are the means of the well-formed fields of each year, and a
\* year without a well-formed field has no mean.
C13_MissingFieldsExcluded ==
    (ret.fn \in {"descriptive", "predictive"}) =>
        /\ \A key \in DOMAIN ret.yearMeans.actual_cost :
              /\ C13_WellFormed(call.pr, key) # {}
              /\ ret.yearMeans.actual_cost[key] =
                     C13_Mean(call.pr, C13_WellFormed(call.pr, key))
        /\ \A i \in 1..Len(call.pr) :
              call.pr[i].actual_cost.k = "lit" =>
                  getFullYear(NewDate(call.pr[i].start_date)) \in DOMAIN ret.yearMeans.actual_cost

--------------------------------------------------------------------------
(* Claims about missing end dates and unusable budgets *)

\* the rows of a year bucket with a parsable planned_end and actual_end
C14_Dated(rows, key) ==
    {i \in 1..Len(rows) : /\ getFullYear(NewDate(rows[i].start_date)) = key
                          /\ rows[i].planned_end.k = "ymd"
                          /\ rows[i].actual_end.k = "ymd"}

\* C14: a project without an actual_end, or with an unparsable planned_end or
\* actual_end, has no schedule slip: every yearly schedule-variance mean is the
\* mean over the projects of the year with both dates, and the slip a
\* recommendation (action selection, savings rate) is computed from is not a
\* number for such a project, in particular not 0 days.
C14_MissingSlipNotZero ==
    /\ (ret.fn \in {"diagnostic", "predictive"}) =>
          \A key \in DOMAIN ret.yearMeans.schedVarAccessor :
              LET S == C14_Dated(ret.rows, key)
              IN /\ S # {}
                 /\ ret.yearMeans.schedVarAccessor[key] =
                        Div(C11_Sum(ret.rows, "schedVarAccessor", S), Num(Cardinality(S)))
    /\ (ret.fn = "recommendation"
          /\ ~(call.p.planned_end.k = "ymd" /\ call.p.actual_end.k = "ymd")) =>
          ~isFinite(ret.rec.slip)

\* C15: a project whose planned_budget is 0, negative or not finite is in no
\* ratio-based metric: it is counted in no cost-variance bucket of the diagnostic
\* page, and a recommendation computes no overrunPct for it.
C15_BudgetGuard ==
    /\ ret.fn = "diagnostic" =>
          \A key \in DOMAIN ret.yearAcc.projectCostVarianceRatio.cnts :
              ret.yearAcc.projectCostVarianceRatio.cnts[key] =
                  Num(Cardinality({i \in 1..Len(ret.rows) :
                        /\ getFullYear(NewDate(ret.rows[i].start_date)) = key
                        /\ isFinite(ret.rows[i].planned_budget)
                        /\ Gt(ret.rows[i].planned_budget, Num(0))
                        /\ isFinite(ret.rows[i].actual_cost)}))
    /\ (ret.fn = "recommendation"
          /\ ~(isFinite(call.p.planned_budget) /\ Gt(call.p.planned_budget, Num(0)))) =>
          ~isFinite(ret.rec.drivers.overPct)

--------------------------------------------------------------------------
(* Claims about the recommendation *)

\* the three rules of the action table on the drivers of a recommendation
C16_Rule(n, rec, budget) ==
    LET coShare == Div(rec.co_total, MathMax(Num(1), Add(rec.overrun, rec.co_total)))
        overrunPct == Div(rec.overrun, MathMax(Num(1), budget))
    IN CASE n = 1 -> Ge(coShare, Fin(55, 100)) /\ Ge(overrunPct, Fin(3, 100))
         [] n = 2 -> Ge(rec.slip, Num(45)) /\ Lt(overrunPct, Fin(5, 100))
         [] n = 3 -> /\ Ge(MathMax(Num(1), budget), Num(5000000))
                     /\ (Ge(overrunPct, Fin(2, 100)) \/ Ge(coShare, Fin(35, 100)))

\* C16: the action is that of the first rule that matches, whatever is drawn:
\* rule 1 gives 'Scope alignment' or 'Design clarification' even when rule 2 or 3
\* matches too, else rule 2 gives 'Schedule tune-up', else rule 3 gives
\* 'Supplier/subcontractor review', else it is 'Design clarification' or
\* 'Schedule tune-up'; the action always has an impact/effort profile.
C16_FirstMatchingRule ==
    ret.fn = "recommendation" =>
        LET b == call.p.planned_budget
            r1 == C16_Rule(1, ret.rec, b)
            r2 == C16_Rule(2, ret.rec, b)
            r3 == C16_Rule(3, ret.rec, b)
            cat == ret.rec.category
        IN /\ r1 => cat \in {"Scope alignment", "Design clarification"}
           /\ (~r1 /\ r2) => cat = "Schedule tune-up"
           /\ (~r1 /\ ~r2 /\ r3) => cat = "Supplier/subcontractor review"
           /\ (~r1 /\ ~r2 /\ ~r3) => cat \in {"Design clarification", "Schedule tune-up"}
           /\ cat \in DOMAIN CAT_PROFILE

\* rules 1 and 2 both match and the draw gave 'Scope alignment'
C16_Witness ==
    /\ ret.fn = "recommendation"
    /\ C16_Rule(1, ret.rec, call.p.planned_budget)
    /\ C16_Rule(2, ret.rec, call.p.planned_budget)
    /\ ret.rec.category = "Scope alignment"

\* C17: for planned_budget >= 0 the savings are
\* min(0.07*budget, pct*(overrun + coTotal)) with the rate of the category, and
\* lie between 0 and 7% of the planned budget.
C17_SavingsFormula ==
    (ret.fn = "recommendation" /\ Ge(call.p.planned_budget, Num(0))) =>
        LET budget == call.p.planned_budget
            r == ret.rec
            pct == CASE r.category = "Scope alignment" ->
                          Add(Fin(10, 100), MathMin(Fin(6, 100), Div(r.co_total, budget)))
                     [] r.category = "Design clarification" -> Fin(7, 100)
                     [] r.category = "Supplier/subcontractor review" -> Fin(5, 100)
                     [] r.category = "Schedule tune-up" ->
                          Add(Fin(3, 100), MathMin(Fin(2, 100), Div(r.slip, Num(180))))
        IN /\ r.savings = MathMin(Mul(Fin(7, 100), budget),
                                  Mul(pct, Add(r.overrun, r.co_total)))
           /\ Ge(r.savings, Num(0))
           /\ Le(r.savings, Mul(Fin(7, 100), budget))

\* C18: the sampled impact and effort lie in [0,1] and in the band of the
\* category widened by the jitter amount 0.02 on each side.
C18_SampleWithinBand ==
    ret.fn = "recommendation" =>
        \A s \in {"impact", "effort"} :
            LET band == CAT_PROFILE[ret.rec.category][s]
                v == ret.rec[s]
            IN /\ Ge(v, Num(0)) /\ Le(v, Num(1))
               /\ Ge(v, Sub(band[1], Fin(2, 100)))
               /\ Le(v, Add(band[2], Fin(2, 100)))

\* the jitter carried a sample below the band of its category and another above
C18_Witness ==
    /\ ret.fn = "recommendation"
    /\ Lt(ret.rec.impact, CAT_PROFILE[ret.rec.category].impact[1])
    /\ Gt(ret.rec.effort, CAT_PROFILE[ret.rec.category].effort[2])

--------------------------------------------------------------------------
(* Claims about the change-order reason *)

\* C19: the normalized reason is the label of the code when the trimmed field,
\* with a trailing ".0" removed, is one of "0", "1", "2", "3", and "Unspecified"
\* for every other field, blank, unmapped code or text.
C19_ReasonMappedOrUnspecified ==
    ret.fn = "normalizeReason" =>
        LET code == replaceDotZeros(trim(IF call.d.defined THEN call.d.chars ELSE <<>>))
        IN ret.co_reason =
              [k |-> "label",
               text |-> CASE code = <<"0">> -> "Scope Change"
                          [] code = <<"1">> -> "Client Request"
                          [] code = <<"2">> -> "Unforeseen Conditions"
                          [] code = <<"3">> -> "Design Revision"
                          [] OTHER -> "Unspecified",
               chars |-> <<>>]

--------------------------------------------------------------------------
(* Page load: the requests of each page's script and what follows them     *)
(*                                                                          *)
(* Every script registers its work as DOMContentLoaded handlers.  A handler *)
(* issues its d3.csv requests, and a callback runs once they have all       *)
(* resolved (then) or one of them has rejected (catch, where the script has *)
(* one).  The then-callback renders and registers the "change" listener of  *)
(* the page's control; the listener renders again and requests nothing.     *)

MaxRenders == 3

\* the DOMContentLoaded handlers of each page's script, in the order registered:
\* the files the handler requests, whether its promise chain ends in .catch, and
\* the canvases its renders draw on, in the order of the drawOrUpdateChart calls
PageHandlers ==
    [descriptive  |-> << [files |-> <<"projects.csv">>, catch |-> TRUE,
                          canvases |-> <<"projectsByYear", "totalsBar",
                                         "avgCostByYear">>],
                         [files |-> <<"projects.csv", "change_orders.csv">>,
                          catch |-> TRUE,
                          canvases |-> <<"projectsByYear", "totalsBar",
                                         "avgCostByYear", "coCountTrend",
                                         "coCostTrend">>] >>,
     diagnostic   |-> << [files |-> <<"projects.csv", "change_orders.csv">>,
                          catch |-> TRUE,
                          canvases |-> <<"costVar", "schedVar", "reasons", "coFreq",
                                         "attrib", "scatter">>] >>,
     predictive   |-> << [files |-> <<"projects.csv", "change_orders.csv">>,
                          catch |-> FALSE,
                          canvases |-> <<"avgCost", "schedVar", "prob", "risk",
                                         "pipe">>] >>,
     prescriptive |-> << [files |-> <<"projects.csv", "change_orders.csv">>,
                          catch |-> FALSE,
                          canvases |-> <<"mix", "matrix">>] >>]

\* the value of an <option>: "all", or the text String(x) of a number x
AllYears == [k |-> "all", num |-> NaN]
toString(x) == [k |-> "text", num |-> x]
\* parseInt(text, 10): the integer the text spells; NaN for "all" and "NaN"
parseInt(t) == IF t.k = "text" /\ isFinite(t.num) THEN t.num ELSE NaN

\* rows.filter((r) => new Date(r[field]).getFullYear().toString() === y), with
\* the !isNaN(d) test of the change-order filter when `guarded`
yearSlice(rows, field, y, guarded) ==
    FilterIdx(rows,
              {i \in 1..Len(rows) :
                  LET d == NewDate(rows[i][field])
                  IN (guarded => ~DateIsNaN(d)) /\ toString(getFullYear(d)) = y},
              1)

\* const counts = Array(12).fill(0); if (!isNaN(d) && d.getFullYear() === year)
\* counts[d.getMonth()] += 1
rollupCountByMonth(rows, year) ==
    LET acc == MonthSumsCnts([i \in 1..Len(rows) |->
                                LET d == NewDate(rows[i].start_date)
                                IN [skip |-> DateIsNaN(d) \/ getFullYear(d) # year,
                                    m |-> getMonth(d), val |-> Num(1)]],
                             Len(rows))
    IN [m \in 1..12 |-> acc.cnts[m]]

\* update(projectsSlice, coSlice) of the descriptive page: the total of
\* updateKPIs, then the configurations renderProjectCharts and, in the second
\* handler, renderCOCharts pass to drawOrUpdateChart, in order: the canvas, the
\* value of the year filter the chart was computed for and the data of the
\* chart, the labels Jan .. Dec written as month indices.  The
\* data of the count charts and of the average-cost chart is computed; the
\* totals bar and the change-order cost trend are drawn without it.
update(projectsSlice, coSlice, selected, withCO) ==
    LET isAll == selected = AllYears
        yearInt == parseInt(selected)
        countsByYear == rollupCountByYear(projectsSlice)
        avgCostByYear == MeansOf(rollupAvgActualCostByYearAcc(projectsSlice))
        MONTH_LABELS == [m \in 1..12 |-> Num(m - 1)]
        Config(canvas, labels, values) ==
            [canvas |-> canvas, selected |-> selected, labels |-> labels,
             values |-> values]
        \* coCountByYear: if (isNaN(d)) return; out[y] = (out[y] || 0) + 1
        counts ==
            SumsCnts([i \in 1..Len(coSlice) |->
                        LET d == NewDate(coSlice[i].date)
                        IN [skip |-> DateIsNaN(d), y |-> getFullYear(d),
                            val |-> Num(1)]],
                     Len(coSlice)).cnts
        \* coCountByMonth: if (!isNaN(d) && d.getFullYear() === year)
        \* arr[d.getMonth()] += 1
        coCountByMonth ==
            LET acc == MonthSumsCnts([i \in 1..Len(coSlice) |->
                                        LET d == NewDate(coSlice[i].date)
                                        IN [skip |-> DateIsNaN(d)
                                                       \/ getFullYear(d) # yearInt,
                                            m |-> getMonth(d), val |-> Num(1)]],
                                     Len(coSlice))
            IN [m \in 1..12 |-> acc.cnts[m]]
        ByYear(canvas, obj, orZero) ==
            LET labels == SortedKeys(obj)
            IN Config(canvas, labels,
                      [j \in 1..Len(labels) |->
                          IF orZero THEN OrElse(obj[labels[j]], Num(0))
                          ELSE obj[labels[j]]])
    IN [selected |-> selected,
        projSlice |-> projectsSlice,
        coSlice |-> coSlice,
        kpi |-> [total |-> Len(projectsSlice)],
        configs |->
            << IF isAll THEN ByYear("projectsByYear", countsByYear, TRUE)
               ELSE Config("projectsByYear", MONTH_LABELS,
                           rollupCountByMonth(projectsSlice, yearInt)),
               Config("totalsBar", <<>>, <<>>),
               IF isAll THEN ByYear("avgCostByYear", avgCostByYear, FALSE)
               ELSE Config("avgCostByYear", MONTH_LABELS,
                           MonthMeansOf(rollupAvgActualCostByMonthAcc(projectsSlice,
                                                                      yearInt))) >>
            \o (IF withCO
                THEN << IF isAll THEN ByYear("coCountTrend", counts, TRUE)
                        ELSE Config("coCountTrend", MONTH_LABELS,
                                    coCountByMonth),
                        Config("coCostTrend", <<>>, <<>>) >>
                ELSE <<>>)]

\* updateView() of the diagnostic page: the two slices of the module arrays, the
\* overrun rate of updateKPIs, then the configurations of renderCharts.  The data of the cost-variance, the
\* schedule-variance and the attribution chart is computed.
updateView(allProjects, allCOs, sel) ==
    LET projSlice == IF sel = AllYears THEN allProjects
                     ELSE yearSlice(allProjects, "start_date", sel, FALSE)
        coSlice == IF sel = AllYears THEN allCOs
                   ELSE yearSlice(allCOs, "date", sel, TRUE)
        isAll == sel = AllYears
        yearInt == parseInt(sel)
        MONTH_LABELS == [m \in 1..12 |-> Num(m - 1)]
        Config(canvas, labels, values) ==
            [canvas |-> canvas, selected |-> sel, labels |-> labels, values |-> values]
        Avg(canvas, accessor) ==
            IF isAll
            THEN LET m == MeansOf(rollupAvgByYearAcc(projSlice, accessor))
                     labels == SortedKeys(m)
                 IN Config(canvas, labels, [j \in 1..Len(labels) |-> m[labels[j]]])
            ELSE Config(canvas, MONTH_LABELS,
                        MonthMeansOf(rollupAvgByMonthAcc(projSlice, yearInt, accessor)))
        Attrib(a) ==
            Config("attrib", a.labels,
                   [j \in 1..Len(a.labels) |-> <<a.coVals[j], a.otherVals[j]>>])
        \* updateKPIs: the finite cost-variance ratios and the share above 0
        ratios == {i \in 1..Len(projSlice) :
                      isFinite(projectCostVarianceRatio(projSlice[i]))}
        overruns == {i \in ratios : Gt(projectCostVarianceRatio(projSlice[i]), Num(0))}
    IN [selected |-> sel,
        projSlice |-> projSlice,
        coSlice |-> coSlice,
        kpi |-> [overrunRate |-> IF ratios # {}
                                 THEN Fin(Cardinality(overruns), Cardinality(ratios))
                                 ELSE NaN],
        configs |->
            << Avg("costVar", "projectCostVarianceRatio"),
               Avg("schedVar", "schedVarAccessor"),
               Config("reasons", <<>>, <<>>),
               Config("coFreq", <<>>, <<>>),
               Attrib(overrunAttributionByTime(projSlice, coSlice, isAll)),
               Config("scatter", <<>>, <<>>) >>]

\* one recompute pass of handler record hr with the control holding `value`:
\* the initial render of the then-callback (first) or the "change" listener.
\* The descriptive then-callbacks call update with the whole arrays and their
\* listeners with the slices of the year; updateView slices on every call; the
\* render of the predictive and the prescriptive page reads its selector, and
\* the content of its charts is left to the function-level checks.
Recompute(hr, value, first) ==
    CASE hr.page = "descriptive" ->
            LET withCO == Len(hr.files) = 2
            IN IF first \/ value = AllYears
               THEN update(hr.allProjects, hr.allCOs, value, withCO)
               ELSE update(yearSlice(hr.allProjects, "start_date", value, FALSE),
                           IF withCO THEN yearSlice(hr.allCOs, "date", value, TRUE)
                           ELSE <<>>,
                           value, withCO)
      [] hr.page = "diagnostic" -> updateView(hr.allProjects, hr.allCOs, value)
      [] OTHER ->
            [selected |-> value, projSlice |-> hr.allProjects, coSlice |-> hr.allCOs,
             kpi |-> [rows |-> Len(hr.allProjects)],
             configs |-> [j \in 1..Len(hr.canvases) |->
                            [canvas |-> hr.canvases[j], selected |-> value,
                             labels |-> <<>>, values |-> <<>>]]]

\* populateYearFilter(data): the options appended to the year selector, one per
\* distinct getFullYear() of the rows, in the order sort((a, b) => a - b) leaves
\* them.  The year of an unparsable start_date is NaN and a - b is then NaN, which
\* the sort reads as "equal"; where no order agrees with every comparison and
\* keeps equal elements in insertion order, the result is implementation-defined.
populateYearFilter(data) ==
    LET ys == [i \in 1..Len(data) |-> getFullYear(NewDate(data[i].start_date))]
        distinct == {ys[i] : i \in 1..Len(ys)}
        n == Cardinality(distinct)
        first(y) == CHOOSE i \in 1..Len(ys) : ys[i] = y /\ \A j \in 1..(i - 1) : ys[j] # y
        perms == {p \in [1..n -> distinct] : \A a, b \in 1..n : a # b => p[a] # p[b]}
        agrees(p) ==
            \A a, b \in 1..n :
                a < b => /\ ~Gt(p[a], p[b])
                         /\ ~Lt(p[a], p[b]) => first(p[a]) < first(p[b])
        sorted == {p \in perms : agrees(p)}
    IN {[i \in 1..n |-> toString(p[i])] : p \in IF sorted # {} THEN sorted ELSE perms}

\* drawOrUpdateChart(existing, canvasEl, config) within one pass.  st holds the
\* handler's charts object (the canvases it has a Chart for), the number of
\* Chart instances constructed per canvas, the data each canvas shows, and
\* whether the pass has thrown.  An existing chart is updated; otherwise new
\* Chart(ctx, config) is called, and on a canvas that already carries a Chart of
\* another handler Chart.js either constructs a second instance or throws
\* ("Canvas is already in use"), depending on its version: `reuse` is the
\* behaviour of the version the page loads.
drawOrUpdateChart(st, config, reuse) ==
    IF st.threw THEN st
    ELSE IF config.canvas \in st.charts
    THEN [st EXCEPT !.shown = Put(@, config.canvas, config)]
    ELSE IF st.instances[config.canvas] > 0 /\ reuse = "throws"
    THEN [st EXCEPT !.threw = TRUE]
    ELSE [st EXCEPT !.charts = @ \cup {config.canvas},
                    !.instances = Put(@, config.canvas, @[config.canvas] + 1),
                    !.shown = Put(@, config.canvas, config)]

\* the script has been evaluated: its handlers are registered, nothing has run;
\* the server holds the two files (project rows that start in 2021 and in 2022
\* and one with an unparsable start date; no change order, one of 2021, or
\* three: one of 2022, an undated one, one of 2021), the control shows its
\* first option, no canvas carries a chart
LoadInit ==
    /\ phase = "loading"
    /\ projects = <<>>
    /\ cos = <<>>
    /\ horizonValue = NaN
    /\ view = NoView
    /\ call = Idle
    /\ ret = Idle
    /\ requests = <<>>
    /\ csv \in [projects :
                   SeqsUpTo({r \in AggCsvProjects : r.project_id \in {"P1", "P4", "P7"}},
                            MaxProjects),
                change_orders :
                   LET co(id, cost, date) ==
                           [project_id |-> id, co_cost |-> Lit(Num(cost)), date |-> date]
                   IN {<<>>,
                       <<co("P1", 50, Ymd(2021, 5, 10))>>,
                       <<co("P7", 500, Ymd(2022, 8, 1)), co("P7", -30, BadDate),
                         co("P1", 50, Ymd(2021, 5, 10))>>}]
    /\ \E page \in DOMAIN PageHandlers :
          /\ handlers = [h \in 1..Len(PageHandlers[page]) |->
                           [page |-> page,
                            files |-> PageHandlers[page][h].files,
                            catch |-> PageHandlers[page][h].catch,
                            canvases |-> PageHandlers[page][h].canvases,
                            state |-> "registered",
                            allProjects |-> <<>>, allCOs |-> <<>>, charts |-> {},
                            renders |-> 0, listening |-> FALSE, logged |-> FALSE]]
          /\ dom = [value |-> CASE page \in {"descriptive", "diagnostic"} -> AllYears
                                [] page = "predictive" -> toString(Num(3))
                                [] OTHER -> toString(Num(10)),
                    options |-> <<>>,
                    instances |-> [c \in UNION {{PageHandlers[page][h].canvases[j] :
                                                    j \in 1..Len(PageHandlers[page][h].canvases)} :
                                                h \in 1..Len(PageHandlers[page])} |-> 0],
                    shown |-> EmptyObj,
                    kpi |-> [written |-> FALSE, selected |-> AllYears, text |-> <<>>],
                    events |-> 0, passes |-> 0]

\* the DOMContentLoaded event: every handler runs, in order, and issues its requests
DomContentLoaded ==
    /\ \A h \in DOMAIN handlers : handlers[h].state = "registered"
    /\ LET RECURSIVE Issue(_)
           Issue(h) ==
               IF h = 0 THEN <<>>
               ELSE Issue(h - 1) \o
                    [i \in 1..Len(handlers[h].files) |->
                        [handler |-> h, file |-> handlers[h].files[i],
                         state |-> "pending"]]
       IN requests' = Issue(Len(handlers))
    /\ handlers' = [h \in DOMAIN handlers |-> [handlers[h] EXCEPT !.state = "waiting"]]
    /\ UNCHANGED <<phase, projects, cos, horizonValue, view, call, ret, csv, dom>>

\* one d3.csv request completes: the file arrives, or the fetch fails
RequestCompletes(i, outcome) ==
    /\ i \in DOMAIN requests
    /\ requests[i].state = "pending"
    /\ requests' = [requests EXCEPT ![i].state = outcome]
    /\ UNCHANGED <<phase, projects, cos, horizonValue, view, call, ret, handlers,
                   csv, dom>>

\* what one pass leaves in the page: the KPI written by updateKPIs, then the
\* charts drawn until a construction throws
PassOn(d, hr, frame, reuse) ==
    LET RECURSIVE Draw(_)
        Draw(j) ==
            IF j = 0 THEN [charts |-> hr.charts, instances |-> d.instances,
                           shown |-> d.shown, threw |-> FALSE]
            ELSE drawOrUpdateChart(Draw(j - 1), frame.configs[j], reuse)
        st == Draw(Len(frame.configs))
    IN [charts |-> st.charts, threw |-> st.threw, frame |-> frame,
        dom |-> [d EXCEPT !.kpi = [written |-> TRUE, selected |-> frame.selected,
                                   text |-> frame.kpi],
                          !.instances = st.instances,
                          !.shown = st.shown]]

\* .then(...) of handler h: every promise it waits for has resolved; the callback
\* assigns the module arrays from the rows, fills the year filter where the page
\* has one, renders, and registers the "change" listener of the control.  An
\* exception of the render ends the callback before the listener is registered
\* and is passed to .catch(...).
ThenCallback(h) ==
    /\ h \in DOMAIN handlers
    /\ handlers[h].state = "waiting"
    /\ \A i \in DOMAIN requests : requests[i].handler = h => requests[i].state = "ok"
    /\ \E hr \in {[handlers[h] EXCEPT
                     !.allProjects = [i \in 1..Len(csv.projects) |->
                                         ProjectRow(csv.projects[i])],
                     !.allCOs = IF Len(handlers[h].files) = 2
                                THEN [i \in 1..Len(csv.change_orders) |->
                                         CoRow(csv.change_orders[i])]
                                ELSE <<>>]} :
       \E opts \in IF hr.page \in {"descriptive", "diagnostic"} THEN populateYearFilter(hr.allProjects)
                   ELSE {<<>>},
          reuse \in IF \E c \in DOMAIN dom.instances : dom.instances[c] > 0
                    THEN {"second instance", "throws"} ELSE {"second instance"} :
          \E pass \in {PassOn([dom EXCEPT !.options = @ \o opts], hr,
                              Recompute(hr, dom.value, TRUE), reuse)} :
             /\ dom' = pass.dom
             /\ handlers' = [handlers EXCEPT ![h] =
                               [hr EXCEPT !.state = IF pass.threw THEN "threw"
                                                    ELSE "resolved",
                                          !.charts = pass.charts,
                                          !.renders = IF pass.threw THEN 0 ELSE 1,
                                          !.listening = ~pass.threw,
                                          !.logged = pass.threw /\ hr.catch]]
    /\ UNCHANGED <<phase, projects, cos, horizonValue, view, call, ret, requests, csv>>

\* a promise handler h waits for has rejected: the then-callback is skipped, and
\* .catch(...), where the chain has one, writes console.error
Rejected(h) ==
    /\ h \in DOMAIN handlers
    /\ handlers[h].state = "waiting"
    /\ \E i \in DOMAIN requests : requests[i].handler = h /\ requests[i].state = "failed"
    /\ handlers' = [handlers EXCEPT ![h].state = "rejected",
                                    ![h].logged = handlers[h].catch]
    /\ UNCHANGED <<phase, projects, cos, horizonValue, view, call, ret, requests,
                   csv, dom>>

\* a listener that keeps its slice in the module array it was filtered from
ListenerKeepingSlice(hr, pass) ==
    [hr EXCEPT !.renders = @ + 1, !.charts = pass.charts,
               !.allProjects = pass.frame.projSlice]

\* the handler after one run of its "change" listener: the slices are new
\* arrays (filter) handed to update, the module arrays are only read
Listener(hr, pass) == [hr EXCEPT !.renders = @ + 1, !.charts = pass.charts]

\* the user picks another option v of the page's control ("all" and the
\* options appended to the year filter, or the fixed options of the horizon and
\* the top-N selector): the "change" event runs every registered listener, in
\* the order registered
ChangeEvent(v) ==
    /\ \E h \in DOMAIN handlers : handlers[h].listening
    /\ \A h \in DOMAIN handlers : handlers[h].renders < MaxRenders
    /\ v \in CASE handlers[1].page \in {"descriptive", "diagnostic"} ->
                    {AllYears} \cup {dom.options[i] : i \in 1..Len(dom.options)}
                [] handlers[1].page = "predictive" -> {toString(Num(1)), toString(Num(3))}
                [] OTHER -> {toString(Num(5)), toString(Num(10))}
    /\ v # dom.value
    /\ LET Ran(before, h, hr, pass) ==
               [dom |-> [pass.dom EXCEPT !.passes = @ + 1],
                handlers |-> [before.handlers EXCEPT ![h] = Listener(hr, pass)]]
           Run(before, h, hr) ==
               IF ~hr.listening THEN before
               ELSE Ran(before, h, hr,
                        PassOn(before.dom, hr, Recompute(hr, v, FALSE),
                               "second instance"))
           RECURSIVE Listeners(_)
           Listeners(h) ==
               IF h = 0 THEN [dom |-> [dom EXCEPT !.value = v, !.events = @ + 1],
                              handlers |-> handlers]
               ELSE Run(Listeners(h - 1), h, handlers[h])
       IN \E after \in {Listeners(Len(handlers))} :
             /\ dom' = after.dom
             /\ handlers' = after.handlers
    /\ UNCHANGED <<phase, projects, cos, horizonValue, view, call, ret, requests, csv>>

LoadNext ==
    \/ DomContentLoaded
    \/ \E i \in 1..3, outcome \in {"ok", "failed"} : RequestCompletes(i, outcome)
    \/ \E h \in 1..2 : ThenCallback(h)
    \/ \E h \in 1..2 : Rejected(h)
    \/ \E v \in {AllYears} \cup {toString(x) : x \in {NaN, Num(2021), Num(2022), Num(1),
                                                    Num(3), Num(5), Num(10)}} :
          ChangeEvent(v)

LoadSpec == LoadInit /\ [][LoadNext]_vars

--------------------------------------------------------------------------
(* Claims about the page load *)

\* C20: on every page, no handler has rendered unless a projects.csv request and
\* a change_orders.csv request have both completed successfully, and once the
\* script has run the page has issued exactly one request for each of the two
\* files, in every later state (so none is issued after a render or a UI event).
C20_JoinedLoadOnce ==
    LET Reqs(file, st) == {i \in DOMAIN requests :
                              requests[i].file = file /\ requests[i].state \in st}
        files == {"projects.csv", "change_orders.csv"}
    IN /\ \A h \in DOMAIN handlers :
              handlers[h].renders > 0 => \A f \in files : Reqs(f, {"ok"}) # {}
       /\ \A h \in DOMAIN handlers :
              handlers[h].state # "registered" =>
                  \A f \in files : Cardinality(Reqs(f, {"pending", "ok", "failed"})) = 1

\* C21: once a request of the page has failed, no handler has rendered or
\* registered its change listener, no file has been requested again by the
\* handler whose request failed, and every handler whose load was rejected
\* has written its console.error entry.
C21_FailureTerminal ==
    (\E i \in DOMAIN requests : requests[i].state = "failed") =>
        /\ \A h \in DOMAIN handlers :
              /\ handlers[h].renders = 0
              /\ ~handlers[h].listening
              /\ handlers[h].state = "rejected" => handlers[h].logged
        /\ \A i, j \in DOMAIN requests :
              (requests[i].handler = requests[j].handler
                  /\ requests[i].file = requests[j].file) => i = j

--------------------------------------------------------------------------
(* Claims about the module-held arrays *)

\* the rows the then-callback of handler record hr maps from the files
C22_Loaded(hr) ==
    [allProjects |-> [i \in 1..Len(csv.projects) |-> ProjectRow(csv.projects[i])],
     allCOs |-> IF Len(hr.files) = 2
                THEN [i \in 1..Len(csv.change_orders) |-> CoRow(csv.change_orders[i])]
                ELSE <<>>]

\* C22: once the then-callback of a handler has assigned its module arrays,
\* they hold the rows mapped from the files, in file order, in every later
\* state: no render and no change of the year filter, the horizon or the top-N
\* selector alters them.
C22_ArraysUnchanged ==
    \A h \in DOMAIN handlers :
        handlers[h].state \in {"resolved", "threw"} =>
            /\ handlers[h].allProjects = C22_Loaded(handlers[h]).allProjects
            /\ handlers[h].allCOs = C22_Loaded(handlers[h]).allCOs

\* two change events have been handled, the last one selects a year that leaves
\* out some of the loaded projects
C22_Witness ==
    \E h \in DOMAIN handlers :
        /\ handlers[h].listening
        /\ handlers[h].renders >= 3
        /\ handlers[h].page = "descriptive"
        /\ dom.value.k = "text"
        /\ dom.kpi.text.total > 0
        /\ dom.kpi.text.total < Len(handlers[h].allProjects)

--------------------------------------------------------------------------
(* Claims about the change events *)

\* C23: on a page whose load has succeeded, the page has made exactly one
\* recompute pass per change event, and after a change event the KPI and the
\* chart of every canvas of a loaded handler are the ones computed for the
\* value the control holds.
C23_OnePassPerEvent ==
    (\E h \in DOMAIN handlers : handlers[h].listening) =>
        /\ dom.passes = dom.events
        /\ dom.events > 0 =>
              /\ dom.kpi.written /\ dom.kpi.selected = dom.value
              /\ \A h \in DOMAIN handlers :
                    handlers[h].listening =>
                       \A j \in 1..Len(handlers[h].canvases) :
                          LET c == handlers[h].canvases[j]
                          IN c \in DOMAIN dom.shown /\ dom.shown[c].selected = dom.value

--------------------------------------------------------------------------
(* Claims about the year filter *)

\* the rows whose date field parses to a date of the selected year; every row
\* when "all" is selected
C25_Slice(rows, field, sel) ==
    IF sel = AllYears THEN rows
    ELSE FilterIdx(rows,
                   {i \in 1..Len(rows) :
                       LET d == NewDate(rows[i][field])
                       IN ~DateIsNaN(d) /\ getFullYear(d) = sel.num},
                   1)

\* C25: on the descriptive and the diagnostic page, whenever a loaded handler
\* has rendered and the year filter holds "all" or a year, the KPI and every
\* chart of the handler are the ones computed from the rows the files hold and
\* the selected value alone: from all loaded projects and change orders for
\* "all", from exactly the projects that start and the change orders dated in
\* year Y for Y; so selecting an earlier value again shows the earlier view.
C25_ViewFromRowsAndSelection ==
    \A h \in DOMAIN handlers :
        LET hr == handlers[h]
            P == C25_Slice(C22_Loaded(hr).allProjects, "start_date", dom.value)
            C == C25_Slice(C22_Loaded(hr).allCOs, "date", dom.value)
            frame == IF hr.page = "descriptive"
                     THEN update(P, C, dom.value, Len(hr.files) = 2)
                     ELSE updateView(P, C, dom.value)
        IN (/\ hr.page \in {"descriptive", "diagnostic"}
            /\ hr.renders > 0
            /\ dom.value = AllYears \/ isFinite(dom.value.num)) =>
               /\ dom.kpi.selected = dom.value
               /\ dom.kpi.text = frame.kpi
               /\ \A j \in 1..Len(frame.configs) :
                     dom.shown[frame.configs[j].canvas] = frame.configs[j]

\* C26: on the descriptive page, once a handler has rendered, the values of
\* the project-count chart sum to the Total Projects KPI, whatever the year
\* filter holds, and with an option other than "all" selected the chart has
\* exactly 12 entries, one per month.
C26_CountsSumToTotal ==
    (/\ \E h \in DOMAIN handlers :
           handlers[h].page = "descriptive" /\ handlers[h].renders > 0
     /\ "projectsByYear" \in DOMAIN dom.shown) =>
        LET chart == dom.shown["projectsByYear"]
        IN /\ dom.value # AllYears =>
                 Len(chart.values) = 12 /\ Len(chart.labels) = 12
           /\ SumSeq(chart.values) = Num(dom.kpi.text.total)

--------------------------------------------------------------------------
(* Claims about the charts and the options of the year filter *)

\* C29: on every page and in every state, at most one Chart instance has been
\* constructed on each canvas, however many passes have been made.
C29_OneChartPerCanvas ==
    \A c \in DOMAIN dom.instances : dom.instances[c] <= 1

\* C30: on the descriptive and the diagnostic page, once every handler's load
\* has ended and at least one has succeeded, the year filter holds, after
\* "all", exactly one option per distinct year in which a project of the file
\* starts, in ascending order, in every later state.
C30_YearOptions ==
    (/\ handlers[1].page \in {"descriptive", "diagnostic"}
     /\ \A h \in DOMAIN handlers : handlers[h].state \in {"resolved", "threw", "rejected"}
     /\ \E h \in DOMAIN handlers : handlers[h].state = "resolved") =>
        LET years == {getFullYear(NewDate(csv.projects[i].start_date)).n :
                         i \in {j \in 1..Len(csv.projects) :
                                   ~DateIsNaN(NewDate(csv.projects[j].start_date))}}
            asc == Ascending(years)
        IN dom.options = [i \in 1..Len(asc) |-> toString(asc[i])]

--------------------------------------------------------------------------
(* Claims about the forecast horizon *)

\* the forecast `f` has exactly h periods last+1..last+h
C24_Periods(labels, last, h) ==
    /\ Len(labels) = h
    /\ \A i \in 1..Len(labels) : labels[i] = Add(last, Num(i))

\* C24: after every render of the predictive page, with H the integer of the
\* horizon selector (3 when it holds none), the average-cost, schedule-variance
\* and pipeline forecasts each hold exactly the H periods lastYear+1..lastYear+H,
\* and in both forecast charts the i-th forecast value sits under label lastYear+i.
C24_HorizonPeriods ==
    view.rendered =>
        LET H == IF isNaN(horizonValue) THEN 3 ELSE horizonValue.n
            lastCost == MaxSeq(view.costReg.xs)
            lastSched == MaxSeq(SortedKeys(view.schedByYear))
            nCost == Len(view.costReg.xs)
            nSched == Cardinality(DOMAIN view.schedByYear)
        IN /\ C24_Periods(view.costForecast.labels, lastCost, H)
           /\ C24_Periods(view.schedForecast.labels, lastSched, H)
           /\ C24_Periods(view.pipeYears, lastCost, H)
           /\ Len(view.costForecast.vals) = H
           /\ Len(view.schedForecast.vals) = H
           /\ Len(view.pipeVals) = H
           /\ Len(view.avgCostLabels) = Len(view.avgCostForecastData)
           /\ Len(view.schedVarLabels) = Len(view.schedVarForecastData)
           /\ \A i \in 1..H :
                 /\ view.avgCostLabels[nCost + i] = Add(lastCost, Num(i))
                 /\ view.avgCostForecastData[nCost + i] = view.costForecast.vals[i]
                 /\ view.schedVarLabels[nSched + i] = Add(lastSched, Num(i))
                 /\ view.schedVarForecastData[nSched + i] = view.schedForecast.vals[i]

--------------------------------------------------------------------------
(* Claims about the overrun attribution *)

\* the projects of the call with finite budget and cost and a positive overrun
C27_Over(rows) ==
    {i \in 1..Len(rows) :
        /\ isFinite(rows[i].planned_budget) /\ isFinite(rows[i].actual_cost)
        /\ Gt(Sub(rows[i].actual_cost, rows[i].planned_budget), Num(0))}

\* C27: for every project with a positive overrun the CO-driven part is
\* min(overrun, change-order total of the project), the other part is the overrun
\* minus the CO-driven part, both parts are >= 0, and in every bucket of the
\* chart CO-driven + other is the sum of the overruns of the bucket's projects.
C27_AttributionSplitsOverrun ==
    ret.fn = "overrunAttributionByTime" =>
        LET rows == ret.rows
            over == [i \in 1..Len(rows) |->
                        Sub(rows[i].actual_cost, rows[i].planned_budget)]
            bucket(i) == LET d == NewDate(rows[i].start_date)
                         IN IF call.isAll THEN getFullYear(d) ELSE getMonth(d)
            a == ret.attrib
        IN /\ \A i \in C27_Over(rows) :
                 LET coTot == CoSumFor(ret.coRows, rows[i].project_id, Len(ret.coRows))
                 IN /\ a.parts[i].co = MathMin(over[i], coTot)
                    /\ a.parts[i].other = Sub(over[i], a.parts[i].co)
                    /\ Ge(a.parts[i].co, Num(0))
                    /\ Ge(a.parts[i].other, Num(0))
           /\ \A j \in 1..Len(a.labels) :
                 Add(a.coVals[j], a.otherVals[j])
                    = SumOver(over, {i \in C27_Over(rows) : bucket(i) = a.labels[j]})

--------------------------------------------------------------------------
(* Claims about the recommendation list *)

\* C28: after every prescriptive render the list holds exactly one
\* recommendation per loaded project, ordered by risk descending and, among
\* equal risks, by savings descending, and the table shows exactly its first
\* min(N, number of projects) entries, N being the integer of the top-N selector
\* and 10 when it holds none.
C28_RecsSortedTopN ==
    ret.fn = "render" =>
        LET n == Len(call.ps)
            N == IF isNaN(ret.topNValue) THEN 10 ELSE ret.topNValue.n
            recs == ret.recs
        IN /\ Len(recs) = n
           /\ {recs[x].index : x \in 1..n} = 1..n
           /\ \A x \in 1..n : recs[x].id = call.ps[recs[x].index].project_id
           /\ \A x, y \in 1..n :
                 x < y => \/ Gt(recs[x].risk, recs[y].risk)
                          \/ /\ recs[x].risk = recs[y].risk
                             /\ Ge(recs[x].savings, recs[y].savings)
           /\ ret.table = SubSeq(recs, 1, IF N < n THEN N ELSE n)
=============================================================================
